---- MODULE Spec2Model ----
(***************************************************************************)
(* A model of the RAG tutor: the agentic tool-use loop (RAGTutorAgent and  *)
(* its streaming counterpart ContextualAgentExecutor) and the retrieval    *)
(* pipeline (RetrievalPipeline, Reranker, InMemoryVectorStore,             *)
(* HybridSearchStore).                                                     *)
(*                                                                         *)
(* Text is a sequence of one-character strings, so that slicing and        *)
(* truthiness of a str are computed as Python computes them.               *)
(***************************************************************************)
EXTENDS Integers, Sequences, FiniteSets, TLC

(***************************************************************************)
(* Program constants and bounds                                            *)
(***************************************************************************)

\* RAGTutorAgent.__init__: self.max_iterations = 5
max_iterations == 5

\* top_k of the agent's initial retrieval: retrieve(query, top_k=5, rerank=True)
AgentTopK == 5

\* slice width of the simulated streaming: range(0, len(answer), 10)
DeltaWidth == 10

\* the most tool calls one provider response requests
MaxCalls == 2

\* the most tool calls the provider requests during one execution
MaxToolCalls == 5

\* the most failing tool calls (unknown name, raising handler, result that
\* json.dumps rejects, unparseable arguments) during one execution
MaxFaults == 1

\* the most text fragments generate_stream yields
MaxTokens == 2

\* the most chunks the vector store holds
MaxChunks == 5

\* the most query variants one retrieve call searches with (the original
\* query included)
MaxVariants == 2

\* the most chunks one add call brings
MaxBatch == 2

\* _check_minute_limit: the window, `now - ts < 60`
WindowSeconds == 60

\* the seconds the clock advances by in one step
TimeStep == 20

\* the last second of the clock
MaxTime == 240

\* the most increment calls on a session between two resets
MaxIncrements == 4

\* scores are counted in hundredths
ScoreUnit == 100

\* hybrid_search: alpha: float = 0.7, in hundredths
AlphaPct == 70

(***************************************************************************)
(* Values                                                                  *)
(***************************************************************************)

\* Python's None, where a text may also stand
None == <<"None">>

\* the texts a provider answers with: '' and one longer than a streamed slice
EmptyText == <<>>
LongText == <<"f", "o", "r", "t", "y", "-", "t", "w", "o", " ", "i", "t">>
Texts == {EmptyText, LongText}

\* rag_agent.py:289
FallbackMessage ==
  <<"I", " ", "c", "o", "u", "l", "d", "n", "'", "t", " ", "c", "o", "m", "p", "l", "e",
    "t", "e", " ", "t", "h", "e", " ", "t", "a", "s", "k", " ", "w", "i", "t", "h", "i", "n",
    " ", "t", "h", "e", " ", "a", "l", "l", "o", "w", "e", "d", " ", "i", "t", "e", "r", "a",
    "t", "i", "o", "n", "s", ".">>

\* Python truthiness of an Optional[str]
Truthy(s) == s # None /\ s # EmptyText

\* main.py registers one tool, "web_navigate"; "missing" is a name the
\* provider asks for that is not registered
RegisteredTools == {"web_navigate"}
RequestedNames == RegisteredTools \cup {"missing"}

\* what the handler does when it is invoked
Behaviours == {"returns", "returns_unserializable", "raises"}

VARIABLES
  mode,            \* "execute" (RAGTutorAgent.execute) or "stream" (execute_with_streaming)
  provider,        \* LLMClient.provider: "anthropic" or "openai"
  pc,              \* position in the coroutine
  needs_tools,     \* result of _analyze_intent
  n_chunks,        \* len(chunks) of the agent's initial retrieval
  iteration,       \* the loop variable of `for iteration in range(max_iterations)`; -1 before the loop
  response,        \* the response of generate_with_tools being processed
  idx,             \* position of the next tool call of `response`
  tools_used,      \* the tools_used list of _agentic_execution
  final_answer,    \* the final_answer local of _agentic_execution
  result,          \* the dict execute returns; None before
  events,          \* the events the streaming generator has yielded
  client_error,    \* TRUE once the transport has sent its own error event
  trace,           \* history: the provider responses of generate_with_tools
  llm_calls,       \* history: number of generate_with_tools calls started
  handler_calls,   \* history: number of tool handler invocations
  budget_checks,   \* history: number of check_budget calls the loop made that returned true
  budget_increments, \* history: number of increment calls the loop made
  provider_failed  \* history: a provider (embedding or generation) call failed

agentVars == <<mode, provider, pc, needs_tools, n_chunks, iteration, response, idx,
               tools_used, final_answer, result, events, client_error, trace,
               llm_calls, handler_calls, budget_checks, budget_increments,
               provider_failed>>

VARIABLES
  chunks,            \* InMemoryVectorStore.chunks
  index,             \* the vectors of the FAISS index, in insertion order
  id_to_idx,         \* InMemoryVectorStore.id_to_idx
  use_hybrid,        \* RetrievalPipeline.hybrid_store is not None
  tokenized_corpus,  \* HybridSearchStore.tokenized_corpus, the corpus self.bm25 was built on
  reranker,          \* RetrievalPipeline.reranker: "absent", or the state of Reranker.model
  r_pc,              \* "new" before the pipeline is constructed, "idle" after, then where the
                     \* call stands: "expanding", "searching", "returned",
                     \* "searching_by_document", "returned_by_document",
                     \* "caller_bound", or "construct_raised", "caller_raised"
  call,              \* the arguments of the retrieve call
  queries,           \* the query variants the call searched with
  results            \* the list retrieve returned

retrievalVars == <<chunks, index, id_to_idx, use_hybrid, tokenized_corpus, reranker,
                   r_pc, call, queries, results>>

VARIABLES
  doc_ids,           \* the doc_ids argument of retrieve_by_document
  received           \* what the caller's `chunks, _ = ...` bound to chunks

docVars == <<doc_ids, received>>

VARIABLES
  store_op,          \* the last operation on the vector store and its outcome
  n_added,           \* history: chunks added since the last clear
  ids_added          \* history: chunk_ids added since the last clear

storeVars == <<store_op, n_added, ids_added>>

VARIABLES
  guard,             \* the arguments ActionBudgetGuard was constructed with
  now,               \* time.time(), in seconds
  session_counts,    \* ActionBudgetGuard.session_counts
  session_timestamps,\* ActionBudgetGuard.session_timestamps
  minute_windows,    \* ActionBudgetGuard.minute_windows
  budget_op,         \* the last call on the guard and what it returned
  increments,        \* history: the times of the increment calls since the session's last reset
  gated              \* history: every increment came directly after a check_budget that returned true

budgetVars == <<guard, now, session_counts, session_timestamps, minute_windows,
                budget_op, increments, gated>>

VARIABLES
  tools,             \* ToolRegistry.tools: the registered tools, in the dict's order
  registry_op,       \* the last execute_tool call and its outcome
  handler_log,       \* history: the handler invocations, each with its input
  latest             \* history: name -> the handler of the latest register call under
                     \* it, and whether the name had been registered before

registryVars == <<tools, registry_op, handler_log, latest>>

VARIABLES
  cm,                \* the arguments ConversationManager keeps from its construction
  loop,              \* the event loop add_message finds: running, stopped or none
  conversations,     \* ConversationManager.conversations: session -> live messages
  summaries,         \* ConversationManager.summaries: session -> summary text
  tasks,             \* the _summarize_conversation tasks created and not yet run
  clock,             \* the number of add_message calls so far, the next timestamp
  added,             \* history: session -> every message added since the last clear
  conv_op            \* the last ConversationManager call and what it returned

convVars == <<cm, loop, conversations, summaries, tasks, clock, added, conv_op>>

VARIABLES
  requests           \* the /query requests in flight: request -> position and locals

VARIABLES
  applied,           \* the last call of a retrieval function and what it returned
  index_pc,          \* the /index requests, in order of arrival: the position and the
                     \* locals of each
  folder             \* the documents folder: file name -> "empty" or "full"

VARIABLES
  disk,              \* the files save writes and load reads: {path}.index, {path}.chunks
  socket,            \* the websocket of a streaming run: the client, where the endpoint
                     \* stands, what the client was sent
  upload_pc          \* the /documents/upload requests, in order of arrival: the
                     \* position and the locals of each

\* the state added for the conversation store, the endpoints and the
\* retrieval functions examined on their own
lateVars == <<disk, socket, upload_pc>>

restVars == <<convVars, requests, applied, index_pc, folder, lateVars>>

vars == <<agentVars, retrievalVars, docVars, storeVars, budgetVars, registryVars,
          restVars>>

\* what the agent's steps leave alone
nonAgentVars == <<retrievalVars, docVars, storeVars, budgetVars, registryVars, restVars>>

\* what a retrieve call leaves alone
nonRetrievalVars == <<agentVars, docVars, storeVars, budgetVars, registryVars,
                      restVars>>

(***************************************************************************)
(* Provider responses                                                      *)
(***************************************************************************)

\* one requested tool call. args_ok: tool_call.function.arguments is JSON
\* (OpenAI shape only; the Anthropic shape carries a parsed input)
Call(n, b, a) == [name |-> n, behaviour |-> b, args_ok |-> a]

PlainCall == Call("web_navigate", "returns", TRUE)

CallTypes(p) ==
  {Call("web_navigate", b, TRUE) : b \in Behaviours}
    \cup {Call("missing", "returns", TRUE)}
    \cup (IF p = "openai" THEN {Call("web_navigate", "returns", FALSE)} ELSE {})

IsFault(c) == c # PlainCall

\* the sequences of 1..n calls over a set of call types
RECURSIVE CallSeqs(_, _)
CallSeqs(S, n) ==
  IF n = 0 THEN {<<>>}
  ELSE LET shorter == CallSeqs(S, n - 1)
       IN  shorter \cup {Append(s, c) : s \in {t \in shorter : Len(t) = n - 1}, c \in S}

NoResponse == [kind |-> "none", calls |-> <<>>, text |-> None]

\* a response asking for tools: stop_reason == 'tool_use' with tool_use
\* blocks (Anthropic), message.tool_calls non-empty (OpenAI)
ToolUse(cs) == [kind |-> "tool_use", calls |-> cs, text |-> None]

\* a response asking for no tool: a text block (Anthropic), message.content
\* with tool_calls empty (OpenAI)
FinalAnswer(t) == [kind |-> "final", calls |-> <<>>, text |-> t]

NumFaults(cs) == Cardinality({i \in 1..Len(cs) : IsFault(cs[i])})

RECURSIVE SumCalls(_)
SumCalls(tr) == IF tr = <<>> THEN 0 ELSE Len(Head(tr).calls) + SumCalls(Tail(tr))

RECURSIVE SumFaults(_)
SumFaults(tr) == IF tr = <<>> THEN 0 ELSE NumFaults(Head(tr).calls) + SumFaults(Tail(tr))

\* the responses the provider may give next, within the bounds
Responses ==
  {FinalAnswer(t) : t \in Texts}
    \cup {ToolUse(cs) : cs \in {s \in CallSeqs(CallTypes(provider), MaxCalls) :
            /\ Len(s) >= 1
            /\ SumCalls(trace) + Len(s) <= MaxToolCalls
            /\ SumFaults(trace) + NumFaults(s) <= MaxFaults}}

(***************************************************************************)
(* ToolRegistry.execute_tool                                               *)
(***************************************************************************)

\* the outcome of execute_tool(name, input): "not_found" (ValueError before
\* any handler runs), "raised" (the handler's exception), "result"
execute_tool(c) ==
  IF c.name \notin RegisteredTools THEN "not_found"
  ELSE IF c.behaviour = "raises" THEN "raised"
  ELSE "result"

\* execute_tool reaches the handler only for a registered name
InvokesHandler(c) == c.name \in RegisteredTools

\* json.dumps(tool_result) raises TypeError on a result it cannot serialize
json_dumps_ok(c) == c.behaviour # "returns_unserializable"

SuccessEntry(c) == [name |-> c.name, success |-> TRUE]
FailureEntry(c) == [name |-> c.name, success |-> FALSE]

\* a bug that records nothing for a tool call that failed
ToolEntries_NoFailureEntry(c) ==
  IF execute_tool(c) = "result" THEN <<SuccessEntry(c)>> ELSE <<>>

\* the entries one tool call appends to tools_used (rag_agent.py:222-244 and
\* 255-273): the success entry is appended before json.dumps runs inside the
\* same try, so a result json.dumps rejects leaves both entries
ToolEntries(c) ==
  IF execute_tool(c) = "result"
  THEN IF json_dumps_ok(c) THEN <<SuccessEntry(c)>>
       ELSE <<SuccessEntry(c), FailureEntry(c)>>
  ELSE <<FailureEntry(c)>>

(***************************************************************************)
(* RAGTutorAgent.execute                                                   *)
(***************************************************************************)

\* a dict with no key
EmptyDict == [k \in {} |-> 0]

\* no operation yet
NoOp == [op |-> "none"]

\* the values the vector-store history keeps while no store operation runs
StoreIdle ==
  /\ store_op = NoOp
  /\ n_added = 0
  /\ ids_added = {}

\* the values the budget guard keeps while it is not examined
BudgetIdle ==
  /\ guard = [max_actions_per_session |-> 10, max_actions_per_minute |-> 20,
              reset_after_seconds |-> 3600]
  /\ now = 0
  /\ session_counts = EmptyDict
  /\ session_timestamps = EmptyDict
  /\ minute_windows = EmptyDict
  /\ budget_op = NoOp
  /\ increments = EmptyDict
  /\ gated = TRUE

\* the values the tool registry keeps while it is not examined
RegistryIdle ==
  /\ tools = EmptyDict
  /\ registry_op = NoOp
  /\ handler_log = <<>>
  /\ latest = EmptyDict

\* the values the conversation store keeps while it is not examined
ConversationIdle ==
  /\ cm = [max_history |-> 10, max_history_length |-> 10,
           summarization_threshold |-> 20]
  /\ loop = "running"
  /\ conversations = EmptyDict
  /\ summaries = EmptyDict
  /\ tasks = <<>>
  /\ clock = 1
  /\ added = EmptyDict
  /\ conv_op = NoOp

\* no /query request in flight
QueryIdle == requests = EmptyDict

\* no retrieval function applied on its own, no re-indexing request yet
NoIndexing == <<>>

\* neither file exists
NoFiles == [index |-> <<>>, has_index |-> FALSE, chunks |-> <<>>, id_to_idx |-> EmptyDict,
            has_chunks |-> FALSE]

\* no websocket
NoSocket == [client |-> "none"]

\* no upload request yet
NoUpload == <<>>

LateIdle == disk = NoFiles /\ socket = NoSocket /\ upload_pc = NoUpload

ApplyIdle == applied = NoOp /\ index_pc = NoIndexing /\ folder = EmptyDict /\ LateIdle

RestIdle == ConversationIdle /\ QueryIdle /\ ApplyIdle

\* the arguments of retrieve, before a call
NoCall == [query |-> "", top_k |-> 0, rerank |-> FALSE, expand_query |-> FALSE,
           found |-> <<>>, concurrent |-> 0, before_first |-> 0]

\* a request arrives: execute (mode "execute") or execute_with_streaming
AgentInit ==
  /\ mode \in {"execute", "stream"}
  /\ provider \in {"anthropic", "openai"}
  /\ pc = "start"
  /\ needs_tools = FALSE
  /\ n_chunks = 0
  /\ iteration = -1
  /\ response = NoResponse
  /\ idx = 0
  /\ tools_used = <<>>
  /\ final_answer = None
  /\ result = None
  /\ events = <<>>
  /\ client_error = FALSE
  /\ trace = <<>>
  /\ llm_calls = 0
  /\ handler_calls = 0
  /\ budget_checks = 0
  /\ budget_increments = 0
  /\ provider_failed = FALSE
  \* the agent's pipeline is not examined here: its variables stay as below
  /\ chunks = <<>>
  /\ index = <<>>
  /\ id_to_idx = <<>>
  /\ use_hybrid = FALSE
  /\ tokenized_corpus = <<>>
  /\ reranker = "absent"
  /\ r_pc = "idle"
  /\ call = NoCall
  /\ queries = <<>>
  /\ results = <<>>
  /\ doc_ids = {}
  /\ received = [kind |-> "nothing"]
  /\ StoreIdle /\ BudgetIdle /\ RegistryIdle /\ RestIdle

\* the variables only the loop changes
loopVars == <<iteration, response, idx, tools_used, final_answer, trace, llm_calls,
              handler_calls, budget_checks, budget_increments>>

\* a provider call failed outside any try: the exception leaves the coroutine
Raise ==
  /\ pc' = "raised"
  /\ provider_failed' = TRUE

\* execute: needs_tools = await self._analyze_intent(query)
ExecuteAnalyzeIntent ==
  /\ mode = "execute" /\ pc = "start"
  /\ \/ /\ \E b \in BOOLEAN : needs_tools' = b
        /\ pc' = "retrieve"
        /\ UNCHANGED provider_failed
     \/ /\ Raise
        /\ UNCHANGED needs_tools
  /\ UNCHANGED <<nonAgentVars, mode, provider, n_chunks, loopVars, result, events, client_error>>

\* chunks, _ = await self.retrieval.retrieve(query, top_k=5, rerank=True)
\* (both _simple_rag_query and _agentic_execution start with it)
ExecuteRetrieve ==
  /\ mode = "execute" /\ pc = "retrieve"
  /\ \/ /\ \E n \in {0, AgentTopK} : n_chunks' = n
        /\ pc' = IF needs_tools THEN "loop" ELSE "generate"
        /\ UNCHANGED provider_failed
     \/ /\ Raise
        /\ UNCHANGED n_chunks
  /\ UNCHANGED <<nonAgentVars, mode, provider, needs_tools, loopVars, result, events, client_error>>

\* _simple_rag_query: response = await self.llm.generate(prompt); return {...}
ExecuteSimpleRag ==
  /\ mode = "execute" /\ pc = "generate"
  /\ \/ /\ \E t \in Texts :
             result' = [answer |-> t, citations |-> <<>>, chunks_used |-> n_chunks,
                        tools_used |-> <<>>]
        /\ pc' = "returned"
        /\ UNCHANGED provider_failed
     \/ /\ Raise
        /\ UNCHANGED result
  /\ UNCHANGED <<nonAgentVars, mode, provider, needs_tools, n_chunks, loopVars, events, client_error>>

\* the branch of the loop body a response takes (rag_agent.py:214, 247, 275)
ExecuteBranch(r) ==
  IF provider = "anthropic" /\ r.kind = "tool_use" THEN "anthropic_tools"
  ELSE IF provider = "openai" THEN "openai_choices"
  ELSE "final"

\* one pass of `for iteration in range(self.max_iterations)` up to the
\* response: generate_with_tools, then the branch on the response's shape
ExecuteGenerate ==
  /\ mode = "execute" /\ pc = "loop"
  /\ iteration + 1 < max_iterations
  /\ llm_calls' = llm_calls + 1
  /\ \/ /\ \E r \in Responses :
             /\ iteration' = iteration + 1
             /\ trace' = Append(trace, r)
             /\ response' = r
             /\ idx' = 1
             /\ CASE ExecuteBranch(r) = "anthropic_tools" ->
                       /\ pc' = "tools"
                       /\ UNCHANGED final_answer
                  [] ExecuteBranch(r) = "openai_choices" ->
                       \* `if ... choice.message.tool_calls:` has no else: a
                       \* response without tool calls falls through to the
                       \* next pass of the loop
                       /\ pc' = IF r.calls # <<>> THEN "tools" ELSE "loop"
                       /\ UNCHANGED final_answer
                  [] OTHER ->
                       /\ final_answer' = r.text
                       /\ pc' = "after_loop"
        /\ UNCHANGED provider_failed
     \/ /\ Raise
        /\ UNCHANGED <<iteration, trace, response, idx, final_answer>>
  /\ UNCHANGED <<nonAgentVars, mode, provider, needs_tools, n_chunks, tools_used, result, events,
                 client_error, handler_calls, budget_checks, budget_increments>>

\* one tool call of the response: execute_tool inside try/except Exception
ExecuteTool ==
  /\ mode = "execute" /\ pc = "tools"
  /\ idx <= Len(response.calls)
  /\ LET c == response.calls[idx] IN
       IF ~c.args_ok
       THEN \* json_lib.loads(tool_call.function.arguments) raises outside the try
            /\ pc' = "raised"
            /\ UNCHANGED <<tools_used, handler_calls, idx>>
       ELSE /\ tools_used' = tools_used \o ToolEntries(c)
            /\ handler_calls' = handler_calls + (IF InvokesHandler(c) THEN 1 ELSE 0)
            /\ idx' = idx + 1
            /\ pc' = IF idx < Len(response.calls) THEN "tools" ELSE "loop"
  /\ UNCHANGED <<nonAgentVars, mode, provider, needs_tools, n_chunks, iteration, response, final_answer,
                 result, events, client_error, trace, llm_calls, budget_checks,
                 budget_increments, provider_failed>>

\* a bug that returns final_answer as the loop left it
AnswerOrFallback_NoFallback(fa) == fa

\* if not final_answer: final_answer = "I couldn't complete the task ..."
AnswerOrFallback(fa) == IF Truthy(fa) THEN fa ELSE FallbackMessage

\* after the loop (break, or range exhausted): the fallback and the return
ExecuteReturn ==
  /\ mode = "execute"
  /\ \/ pc = "after_loop"
     \/ pc = "loop" /\ iteration + 1 >= max_iterations
  /\ LET answer == AnswerOrFallback(final_answer) IN
       /\ final_answer' = answer
       /\ result' = [answer |-> answer, tools_used |-> tools_used,
                     iterations |-> iteration + 1, chunks_used |-> n_chunks]
  /\ pc' = "returned"
  /\ UNCHANGED <<nonAgentVars, mode, provider, needs_tools, n_chunks, iteration, response, idx, tools_used,
                 events, client_error, trace, llm_calls, handler_calls, budget_checks,
                 budget_increments, provider_failed>>

ExecuteNext ==
  \/ ExecuteAnalyzeIntent
  \/ ExecuteRetrieve
  \/ ExecuteSimpleRag
  \/ ExecuteGenerate
  \/ ExecuteTool
  \/ ExecuteReturn

(***************************************************************************)
(* ContextualAgentExecutor.execute_with_streaming                          *)
(***************************************************************************)

Ev(t) == [type |-> t]
ToolEv(t, c) == [type |-> t, tool_name |-> c.name]
Delta(d) == [type |-> "content_delta", delta |-> d]

Min(a, b) == IF a < b THEN a ELSE b

\* for i in range(0, len(answer), 10): yield content_delta answer[i:i+10]
DeltaEvents(answer) ==
  LET n == (Len(answer) + DeltaWidth - 1) \div DeltaWidth
  IN  [i \in 1..n |->
         Delta(SubSeq(answer, DeltaWidth * (i - 1) + 1, Min(DeltaWidth * i, Len(answer))))]

\* a text fragment of generate_stream
Token == <<"o", "k">>

\* the number of content_delta events among evs
RECURSIVE NumDeltas(_)
NumDeltas(evs) ==
  IF evs = <<>> THEN 0
  ELSE (IF Head(evs).type = "content_delta" THEN 1 ELSE 0) + NumDeltas(Tail(evs))

\* yield {'type': 'tool_result', 'tool_name': ..., 'result': tool_result,
\* 'success': True}; of the result the event keeps whether json.dumps takes it
ToolResult(c) ==
  [type |-> "tool_result", tool_name |-> c.name,
   result |-> IF json_dumps_ok(c) THEN "json" ELSE "unserializable", success |-> TRUE]

\* json.dumps(event), as event_generator and send_json apply it to an event
json_dumps_event_ok(e) == e.type = "tool_result" => e.result # "unserializable"

\* `yield event`: the generator hands the event to its consumer and is
\* suspended until the consumer asks for the next one
Yield(e) == events' = Append(events, e)

\* the consumer asks for the next event: the websocket loop after each
\* send_message, event_generator only once json.dumps(event) has passed
Resumed == socket # NoSocket \/ events = <<>> \/ json_dumps_event_ok(events[Len(events)])

\* the variables no step of the generator changes
streamFixed == <<nonAgentVars, mode, provider, tools_used, result, client_error,
                 budget_checks, budget_increments>>

\* yield agent_start
StreamStart ==
  /\ mode = "stream" /\ pc = "start"
  /\ Yield(Ev("agent_start"))
  /\ pc' = "intent"
  /\ UNCHANGED <<streamFixed, needs_tools, n_chunks, iteration, response, idx,
                 final_answer, trace, llm_calls, handler_calls, provider_failed>>

\* needs_tools = await self.agent._analyze_intent(query); yield intent_analysis
StreamAnalyzeIntent ==
  /\ mode = "stream" /\ pc = "intent"
  /\ \/ /\ \E b \in BOOLEAN : needs_tools' = b
        /\ Yield(Ev("intent_analysis"))
        /\ pc' = "retrieve"
        /\ UNCHANGED provider_failed
     \/ /\ Raise
        /\ UNCHANGED <<needs_tools, events>>
  /\ UNCHANGED <<streamFixed, n_chunks, iteration, response, idx, final_answer, trace,
                 llm_calls, handler_calls>>

\* yield retrieval_start (_stream_simple_rag and _stream_agent_execution)
StreamRetrievalStart ==
  /\ mode = "stream" /\ pc = "retrieve"
  /\ Yield(Ev("retrieval_start"))
  /\ pc' = "retrieving"
  /\ UNCHANGED <<streamFixed, needs_tools, n_chunks, iteration, response, idx,
                 final_answer, trace, llm_calls, handler_calls, provider_failed>>

\* chunks, _ = await self.retrieval.retrieve(...); yield retrieval_complete
StreamRetrieve ==
  /\ mode = "stream" /\ pc = "retrieving"
  /\ \/ /\ \E n \in {0, AgentTopK} : n_chunks' = n
        /\ Yield(Ev("retrieval_complete"))
        /\ pc' = IF needs_tools THEN "loop" ELSE "generate"
        /\ UNCHANGED provider_failed
     \/ /\ Raise
        /\ UNCHANGED <<n_chunks, events>>
  /\ UNCHANGED <<streamFixed, needs_tools, iteration, response, idx, final_answer, trace,
                 llm_calls, handler_calls>>

\* _stream_simple_rag: yield generation_start
StreamGenerationStart ==
  /\ mode = "stream" /\ pc = "generate"
  /\ Yield(Ev("generation_start"))
  /\ pc' = "tokens"
  /\ UNCHANGED <<streamFixed, needs_tools, n_chunks, iteration, response, idx,
                 final_answer, trace, llm_calls, handler_calls, provider_failed>>

\* one turn of `async for token in self.llm.generate_stream(...)`: the
\* provider yields a fragment and it is passed on as a content_delta, or the
\* provider fails
StreamToken ==
  /\ mode = "stream" /\ pc = "tokens"
  /\ \/ /\ NumDeltas(events) < MaxTokens
        /\ Yield(Delta(Token))
        /\ pc' = "tokens"
        /\ UNCHANGED provider_failed
     \/ /\ Raise
        /\ UNCHANGED events
  /\ UNCHANGED <<streamFixed, needs_tools, n_chunks, iteration, response, idx,
                 final_answer, trace, llm_calls, handler_calls>>

\* the provider's stream ends: format_citations, yield citations
StreamCitations ==
  /\ mode = "stream" /\ pc = "tokens"
  /\ Yield(Ev("citations"))
  /\ pc' = "cited"
  /\ UNCHANGED <<streamFixed, needs_tools, n_chunks, iteration, response, idx,
                 final_answer, trace, llm_calls, handler_calls, provider_failed>>

\* the branch of the loop body a response takes
\* (contextual_agent_executor.py:148, 185, 187, 217, 231)
StreamBranch(r) ==
  IF provider = "anthropic" /\ r.kind = "tool_use" THEN "anthropic_tools"
  ELSE IF provider = "openai"
       THEN IF r.calls # <<>> THEN "openai_tools" ELSE "openai_final"
       ELSE "final"

\* a bug that goes on with the next pass of the loop after a provider error
OnGenerateError_Continue == "loop"

\* where the loop's `except Exception` leaves the coroutine: `break`
OnGenerateError == "after_loop"

\* the head of one pass of `for iteration in range(max_iterations)`:
\* yield iteration_start
StreamIterationStart ==
  /\ mode = "stream" /\ pc = "loop"
  /\ iteration + 1 < max_iterations
  /\ iteration' = iteration + 1
  /\ Yield(Ev("iteration_start"))
  /\ pc' = "calling"
  /\ UNCHANGED <<streamFixed, needs_tools, n_chunks, response, idx, final_answer, trace,
                 llm_calls, handler_calls, provider_failed>>

\* the prompt is built and self.llm.generate_with_tools(...) is called inside
\* the try: the coroutine waits for the provider
StreamCall ==
  /\ mode = "stream" /\ pc = "calling"
  /\ llm_calls' = llm_calls + 1
  /\ pc' = "generating"
  /\ UNCHANGED <<streamFixed, needs_tools, n_chunks, iteration, response, idx,
                 final_answer, trace, events, handler_calls, provider_failed>>

\* the await of generate_with_tools returns or raises, and the branch on the
\* response: to its tool calls, or yield generation_start for a final
\* answer; `except Exception`: yield error; break
StreamGenerate ==
  /\ mode = "stream" /\ pc = "generating"
  /\ \/ /\ \E r \in Responses :
             /\ trace' = Append(trace, r)
             /\ response' = r
             /\ idx' = 1
             /\ IF StreamBranch(r) \in {"anthropic_tools", "openai_tools"}
                THEN /\ pc' = "tools"
                     /\ UNCHANGED <<events, final_answer>>
                ELSE /\ final_answer' = r.text
                     /\ Yield(Ev("generation_start"))
                     /\ pc' = IF DeltaEvents(r.text) = <<>> THEN "after_loop" ELSE "deltas"
        /\ UNCHANGED provider_failed
     \/ /\ Yield(Ev("error"))
        /\ pc' = OnGenerateError
        /\ provider_failed' = TRUE
        /\ UNCHANGED <<trace, response, idx, final_answer>>
  /\ UNCHANGED <<streamFixed, needs_tools, n_chunks, iteration, llm_calls, handler_calls>>

\* one turn of `for i in range(0, len(answer), 10)`: yield content_delta,
\* then await asyncio.sleep(0.01); after the last slice, break
StreamDelta ==
  /\ mode = "stream" /\ pc = "deltas"
  /\ LET slices == DeltaEvents(final_answer)
         k == NumDeltas(events)
     IN  /\ k < Len(slices)
         /\ Yield(slices[k + 1])
         /\ pc' = IF k + 1 = Len(slices) THEN "after_loop" ELSE "deltas"
  /\ UNCHANGED <<streamFixed, needs_tools, n_chunks, iteration, response, idx,
                 final_answer, trace, llm_calls, handler_calls, provider_failed>>

\* the next tool call of the response, or the loop's head after the last one
AfterCall == IF idx < Len(response.calls) THEN "tools" ELSE "loop"

\* the head of one tool call of the response: yield tool_call; for the OpenAI
\* shape json_lib.loads(arguments) runs first, and when it raises inside the
\* outer try: yield error; break
StreamToolCall ==
  /\ mode = "stream" /\ pc = "tools"
  /\ idx <= Len(response.calls)
  /\ LET c == response.calls[idx] IN
       IF ~c.args_ok
       THEN /\ Yield(Ev("error"))
            /\ pc' = "after_loop"
       ELSE /\ Yield(ToolEv("tool_call", c))
            /\ pc' = "tool_called"
  /\ UNCHANGED <<streamFixed, needs_tools, n_chunks, iteration, response, idx,
                 final_answer, trace, llm_calls, handler_calls, provider_failed>>

\* self.agent.tools.execute_tool(...) is called inside try/except Exception
\* and finds the tool: the handler is started and the coroutine waits for it
StreamToolStart ==
  /\ mode = "stream" /\ pc = "tool_called"
  /\ InvokesHandler(response.calls[idx])
  /\ handler_calls' = handler_calls + 1
  /\ pc' = "tool_running"
  /\ UNCHANGED <<streamFixed, needs_tools, n_chunks, iteration, response, idx,
                 final_answer, trace, events, llm_calls, provider_failed>>

\* the await of execute_tool returns or raises (for a name that is not
\* registered, at once and with no handler started): yield tool_result, or
\* yield tool_error
StreamTool ==
  /\ mode = "stream"
  /\ \/ pc = "tool_running"
     \/ pc = "tool_called" /\ ~InvokesHandler(response.calls[idx])
  /\ LET c == response.calls[idx] IN
       IF execute_tool(c) = "result"
       THEN /\ Yield(ToolResult(c))
            /\ pc' = "tool_resulted"
            /\ UNCHANGED idx
       ELSE /\ Yield(ToolEv("tool_error", c))
            /\ pc' = AfterCall
            /\ idx' = idx + 1
  /\ UNCHANGED <<streamFixed, needs_tools, n_chunks, iteration, response, final_answer,
                 trace, llm_calls, handler_calls, provider_failed>>

\* context += f"...{json.dumps(tool_result)}" inside the same try: when it
\* raises, yield tool_error
StreamToolResult ==
  /\ mode = "stream" /\ pc = "tool_resulted"
  /\ Resumed
  /\ LET c == response.calls[idx] IN
       IF json_dumps_ok(c) THEN UNCHANGED events ELSE Yield(ToolEv("tool_error", c))
  /\ pc' = AfterCall
  /\ idx' = idx + 1
  /\ UNCHANGED <<streamFixed, needs_tools, n_chunks, iteration, response, final_answer,
                 trace, llm_calls, handler_calls, provider_failed>>

\* execute_with_streaming after _stream_simple_rag or
\* _stream_agent_execution ends: yield done
StreamDone ==
  /\ mode = "stream"
  /\ \/ pc = "after_loop"
     \/ pc = "cited"
     \/ pc = "loop" /\ iteration + 1 >= max_iterations
  /\ Yield(Ev("done"))
  /\ pc' = "finished"
  /\ UNCHANGED <<streamFixed, needs_tools, n_chunks, iteration, response, idx,
                 final_answer, trace, llm_calls, handler_calls, provider_failed>>

\* main.py event_generator: its try covers the generator and
\* json.dumps(event); an exception of either is sent to the client as an
\* error event and the generator is not resumed
TransportError ==
  /\ mode = "stream" /\ socket = NoSocket
  /\ \/ pc = "raised"
     \/ pc = "tool_resulted" /\ ~json_dumps_event_ok(events[Len(events)])
  /\ client_error' = TRUE
  /\ pc' = "closed"
  /\ UNCHANGED <<nonAgentVars, mode, provider, needs_tools, n_chunks, loopVars, result, events,
                 provider_failed>>

\* the steps of the generator execute_with_streaming
GeneratorNext ==
  \/ StreamStart
  \/ StreamAnalyzeIntent
  \/ StreamRetrievalStart
  \/ StreamRetrieve
  \/ StreamGenerationStart
  \/ StreamToken
  \/ StreamCitations
  \/ StreamIterationStart
  \/ StreamCall
  \/ StreamGenerate
  \/ StreamDelta
  \/ StreamToolCall
  \/ StreamToolStart
  \/ StreamTool
  \/ StreamToolResult
  \/ StreamDone

\* the generator consumed by event_generator
StreamNext ==
  \/ StreamStart
  \/ StreamAnalyzeIntent
  \/ StreamRetrievalStart
  \/ StreamRetrieve
  \/ StreamGenerationStart
  \/ StreamToken
  \/ StreamCitations
  \/ StreamIterationStart
  \/ StreamCall
  \/ StreamGenerate
  \/ StreamDelta
  \/ StreamToolCall
  \/ StreamToolStart
  \/ StreamTool
  \/ StreamToolResult
  \/ StreamDone
  \/ TransportError

AgentNext == ExecuteNext \/ StreamNext

(***************************************************************************)
(* Properties of the agent loop                                            *)
(***************************************************************************)

AllToolUse == \A i \in 1..Len(trace) : trace[i].kind = "tool_use"

AllArgsOk == \A i \in 1..Len(trace) : \A j \in 1..Len(trace[i].calls) : trace[i].calls[j].args_ok

Terminal == pc \in {"returned", "raised", "finished", "closed"}

\* C1: every tool handler invocation is preceded by a check_budget that
\* returned true and followed by an increment: at no time have more handlers
\* been invoked than checks passed, and a completed run has recorded one
\* increment per invocation.
C1_BudgetGatesEveryToolCall ==
  /\ handler_calls <= budget_checks
  /\ pc \in {"returned", "finished"} => budget_increments = handler_calls

\* C2: when the provider never returns a FinalAnswer (every response a
\* well-formed ToolUse, whatever the tools do), execute makes no more than
\* max_iterations generation calls, ends by returning (not raising) after
\* exactly max_iterations of them, and its answer is the fixed fallback
\* message.
C2_NoFinalAnswerEndsWithFallback ==
  /\ llm_calls <= max_iterations
  /\ (mode = "execute" /\ needs_tools /\ Terminal /\ AllToolUse /\ AllArgsOk
        /\ ~provider_failed)
       => /\ pc = "returned"
          /\ llm_calls = max_iterations
          /\ result.answer = FallbackMessage

C2_Witness ==
  /\ mode = "execute" /\ pc = "returned"
  /\ Len(trace) = max_iterations /\ AllToolUse
  /\ \E i \in 1..Len(tools_used) : ~tools_used[i].success
  /\ \E i \in 1..Len(tools_used) : tools_used[i].success
  /\ result.answer = FallbackMessage

\* C3: a final answer (stated here for one with a non-empty text) ends the
\* loop in the iteration that received it: it is the last response, no
\* generation call and no tool call follows it, and the answer execute
\* returns is its text.
C3_FinalAnswerExitsLoop ==
  \A i \in 1..Len(trace) :
    (trace[i].kind = "final" /\ Truthy(trace[i].text))
      => /\ i = Len(trace)
         /\ llm_calls = i
         /\ pc # "tools"
         /\ (mode = "execute" /\ pc = "returned") => result.answer = trace[i].text

\* C4: n responses that each request exactly one tool call (stated here for
\* calls of the registered tool whose handler returns a JSON value), followed
\* by a FinalAnswer, make execute return iterations = n + 1 and n entries in
\* tools_used.
C4_IterationsAndToolsUsed ==
  (mode = "execute" /\ pc = "returned" /\ needs_tools)
    => \A n \in 0..(max_iterations - 1) :
         (/\ Len(trace) >= n + 1
          /\ trace[n + 1].kind = "final"
          /\ \A i \in 1..n : trace[i].kind = "tool_use" /\ trace[i].calls = <<PlainCall>>)
           => /\ result.iterations = n + 1
              /\ Len(result.tools_used) = n

\* C5: a tool call that fails (unknown tool name, or a handler that raises)
\* is recorded as a failed entry (a tool_error event when streaming) and the
\* loop goes on: to the next call of the same response, or to the head of
\* the loop for the next iteration when it was the last call.
C5_ToolFailureDoesNotAbort ==
  [][/\ (mode = "execute" /\ pc = "tools" /\ idx <= Len(response.calls))
          => LET c == response.calls[idx] IN
               (c.args_ok /\ execute_tool(c) \in {"not_found", "raised"})
                 => /\ tools_used' = Append(tools_used, FailureEntry(c))
                    /\ pc' = (IF idx < Len(response.calls) THEN "tools" ELSE "loop")
                    /\ idx' = idx + 1
                    /\ response' = response /\ iteration' = iteration
     /\ (mode = "stream" /\ (pc = "tool_running"
                                \/ (pc = "tool_called" /\ ~InvokesHandler(response.calls[idx]))))
          => LET c == response.calls[idx] IN
               execute_tool(c) \in {"not_found", "raised"}
                 => /\ events' = Append(events, ToolEv("tool_error", c))
                    /\ pc' = (IF idx < Len(response.calls) THEN "tools" ELSE "loop")
                    /\ idx' = idx + 1
                    /\ response' = response /\ iteration' = iteration]_vars

\* a failed call was recorded, a later call of the same response ran, and a
\* later iteration received its response
C5_Witness ==
  /\ mode = "execute"
  /\ Len(trace) >= 2
  /\ Len(trace[1].calls) = 2
  /\ execute_tool(trace[1].calls[1]) \in {"not_found", "raised"}
  /\ Len(tools_used) >= 2
  /\ ~tools_used[1].success /\ tools_used[2].success

\* C6: on either path the dict execute returns has the keys answer,
\* tools_used, iterations and chunks_used, and on the simple path tools_used
\* is empty.
C6_ResultFields ==
  (mode = "execute" /\ pc = "returned")
    => /\ {"answer", "tools_used", "iterations", "chunks_used"} \subseteq DOMAIN result
       /\ ~needs_tools => result.tools_used = <<>>

\* the order of events the streaming state machine is specified to follow,
\* as an automaton over event types; "reject" once the order is broken
OrderStep(q, t) ==
  CASE q = "begin" /\ t = "agent_start" -> "started"
    [] q = "started" /\ t = "intent_analysis" -> "intent"
    [] q = "intent" /\ t = "retrieval_start" -> "retrieving"
    [] q = "retrieving" /\ t = "retrieval_complete" -> "body"
    [] q = "body" /\ t = "iteration_start" /\ needs_tools -> "body"
    [] q = "body" /\ t = "tool_call" /\ needs_tools -> "called"
    [] q = "called" /\ t \in {"tool_result", "tool_error"} -> "body"
    [] q = "body" /\ t = "generation_start" -> "content"
    [] q \in {"body", "content"} /\ t = "content_delta" -> "content"
    [] q \in {"body", "content"} /\ t = "citations" -> "cited"
    [] q = "cited" /\ t = "done" -> "done"
    [] q \in {"body", "called", "content"} /\ t = "error" -> "failed"
    [] q = "failed" /\ t = "done" -> "done"
    [] OTHER -> "reject"

RECURSIVE OrderRun(_, _)
OrderRun(q, es) == IF es = <<>> THEN q ELSE OrderRun(OrderStep(q, Head(es).type), Tail(es))

\* C7: every event sequence of execute_with_streaming follows the order
\* agent_start, intent_analysis, retrieval_start, retrieval_complete, then on
\* the agentic path iteration_start and tool_call events, each tool_call
\* followed at once by its tool_result or tool_error, then content_delta
\* events, then citations, then done. (A generation_start before the first
\* content_delta and an error event followed by done are let through here;
\* the order fails without them being counted.)
C7_EventOrder ==
  mode = "stream"
    => /\ OrderRun("begin", events) # "reject"
       /\ pc = "finished" => OrderRun("begin", events) = "done"

AfterError(types) ==
  \A i \in 1..Len(events) :
    events[i].type = "error" => \A j \in (i + 1)..Len(events) : events[j].type \notin types

\* C8: a provider failure is never swallowed and never retried. execute
\* raises and returns nothing; the streaming variant ends, its client has
\* been sent an error event (by the loop's except clause, or by the
\* transport when the exception leaves the generator), and no
\* content_delta, tool_call or iteration_start follows an error event; no
\* provider call is started after the failure.
C8_ProviderFailureSurfaces ==
  /\ provider_failed =>
       /\ pc \in {"raised", "closed", "after_loop", "finished"}
       /\ mode = "execute" => pc = "raised" /\ result = None
       /\ (mode = "stream" /\ pc \in {"closed", "finished"}) =>
            \/ client_error
            \/ \E i \in 1..Len(events) : events[i].type = "error"
  /\ AfterError({"content_delta", "tool_call", "iteration_start"})
  /\ client_error => pc = "closed"

\* both ways a streaming run surfaces a provider failure, and a raising execute
C8_Witness ==
  /\ provider_failed
  /\ \/ mode = "stream" /\ pc = "finished" /\ llm_calls >= 2
          /\ events[Len(events) - 1].type = "error"
     \/ mode = "stream" /\ pc = "closed" /\ client_error
          /\ \E i \in 1..Len(events) : events[i].type = "content_delta"
     \/ mode = "execute" /\ pc = "raised" /\ llm_calls >= 2

\* the events the client of a streaming run has been sent: those the
\* generator yielded and json.dumps took, then the transport's error event
ClientStream ==
  SelectSeq(events, json_dumps_event_ok) \o (IF client_error THEN <<Ev("error")>> ELSE <<>>)

\* C32: the event stream of a streaming run holds exactly one terminal event,
\* done or error, and it is the stream's last event: no event follows a done
\* or an error event, and a run that has ended has sent one.
C32_OneTerminalEventLast ==
  mode = "stream"
    => /\ \A i \in 1..Len(ClientStream) :
            ClientStream[i].type \in {"done", "error"} => i = Len(ClientStream)
       /\ pc \in {"finished", "closed"}
            => /\ ClientStream # <<>>
               /\ ClientStream[Len(ClientStream)].type \in {"done", "error"}

\* the concatenation of the content_delta events of evs
RECURSIVE ConcatDeltas(_)
ConcatDeltas(evs) ==
  IF evs = <<>> THEN <<>>
  ELSE (IF Head(evs).type = "content_delta" THEN Head(evs).delta ELSE <<>>)
         \o ConcatDeltas(Tail(evs))

\* the answer of a run that has ended: the one execute returned, or the
\* content_delta events of the stream put together
RunAnswer == IF mode = "execute" THEN result.answer ELSE ConcatDeltas(events)

\* the place of the first FinalAnswer among the responses, 0 when there is none
FirstFinal(tr) ==
  IF \E i \in 1..Len(tr) : tr[i].kind = "final"
  THEN CHOOSE i \in 1..Len(tr) :
         tr[i].kind = "final" /\ \A j \in 1..(i - 1) : tr[j].kind # "final"
  ELSE 0

\* the handlers the responses of tr make the registry invoke
RECURSIVE HandlersInvoked(_)
HandlersInvoked(tr) ==
  IF tr = <<>> THEN 0
  ELSE Cardinality({i \in 1..Len(Head(tr).calls) : InvokesHandler(Head(tr).calls[i])})
         + HandlersInvoked(Tail(tr))

\* C33: fed the same provider responses and tool outcomes, execute and the
\* streaming variant run one state machine: either makes one generation call
\* per response up to the first FinalAnswer (or max_iterations of them when
\* there is none), invokes the handlers of the calls of those responses, and
\* ends with the same answer (execute's return value, the stream's
\* content_delta events put together): the final text, or the fixed fallback
\* message when max_iterations is exhausted.
C33_StreamingAndExecuteAgree ==
  (pc \in {"returned", "finished"} /\ needs_tools /\ ~provider_failed /\ AllArgsOk)
    => LET n == FirstFinal(trace) IN
         /\ llm_calls = Len(trace)
         /\ handler_calls = HandlersInvoked(trace)
         /\ IF n = 0
            THEN Len(trace) = max_iterations /\ RunAnswer = FallbackMessage
            ELSE Len(trace) = n /\ RunAnswer = AnswerOrFallback(trace[n].text)

\* C39: each tool call a response requested has added exactly one entry to
\* tools_used, a success or a failure, whatever its handler returned or
\* raised: the tools_used execute returns has as many entries as tool calls
\* were requested over all iterations.
C39_OneEntryPerToolCall ==
  (mode = "execute" /\ pc = "returned" /\ needs_tools)
    => Len(result.tools_used) = SumCalls(trace)

(***************************************************************************)
(* Chunks, embeddings and the vector store                                 *)
(***************************************************************************)

Chunk(id, doc, content) == [chunk_id |-> id, doc_id |-> doc, content |-> content]

\* the chunks documents are cut into: uploading a file again adds chunks
\* with the chunk_ids it had (chunk_id = f"{doc_id}_chunk_{i}")
ChunkTypes ==
  {Chunk("a", "d1", "north"), Chunk("b", "d2", "west"), Chunk("c", "d2", "east")}

\* the query texts
Queries == {"east", "west"}

\* EmbeddingModel.encode: a text's vector; not all of unit length
Embed(text) ==
  CASE text = "north" -> <<0, 2>>
    [] text = "west" -> <<-1, 0>>
    [] text = "east" -> <<3, 0>>

Abs(x) == IF x < 0 THEN -x ELSE x

\* faiss.normalize_L2 on a vector along one axis
normalize_L2(v) ==
  LET norm == Abs(v[1]) + Abs(v[2])
  IN  IF norm = 0 THEN v ELSE <<v[1] \div norm, v[2] \div norm>>

\* IndexFlatIP: the inner product, in hundredths
InnerProduct(u, v) == ScoreUnit * (u[1] * v[1] + u[2] * v[2])

Entry(c, sc) == [chunk |-> c, score |-> sc]

\* e put after every entry of `sorted` whose score is not lower
RECURSIVE InsertDesc(_, _)
InsertDesc(sorted, e) ==
  IF sorted = <<>> THEN <<e>>
  ELSE IF Head(sorted).score >= e.score
       THEN <<Head(sorted)>> \o InsertDesc(Tail(sorted), e)
       ELSE <<e>> \o sorted

\* sorted(..., key=score, reverse=True): descending and stable
RECURSIVE SortDesc(_)
SortDesc(s) ==
  IF s = <<>> THEN <<>>
  ELSE InsertDesc(SortDesc(SubSeq(s, 1, Len(s) - 1)), s[Len(s)])

\* s[:n]
Take(s, n) == SubSeq(s, 1, Min(n, Len(s)))

\* the vectors add() puts into the index for a list of chunks
IndexOf(cs) == [i \in 1..Len(cs) |-> normalize_L2(Embed(cs[i].content))]

\* id_to_idx after add(): the last position of each chunk_id
IdToIdxOf(cs) ==
  [id \in {cs[i].chunk_id : i \in 1..Len(cs)} |->
     CHOOSE i \in 1..Len(cs) :
       cs[i].chunk_id = id /\ \A j \in (i + 1)..Len(cs) : cs[j].chunk_id # id]

\* the chunk_ids of a list of chunks
IdsOf(cs) == {cs[i].chunk_id : i \in 1..Len(cs)}

\* the store's three parts
Store(cs, ix, ids) == [chunks |-> cs, index |-> ix, id_to_idx |-> ids]

\* a bug that stores the chunks before it compares the lengths
add_ChecksAfterStoring(embeddings, batch) ==
  [raised |-> Len(embeddings) # Len(batch),
   store |-> Store(chunks \o batch, index, id_to_idx)]

\* InMemoryVectorStore.add(embeddings, chunks): what it raises and the store
\* it leaves. Positions count from 1 here, from 0 in the code.
add(embeddings, batch) ==
  IF Len(embeddings) # Len(batch)
  THEN [raised |-> TRUE, store |-> Store(chunks, index, id_to_idx)]
  ELSE LET start_idx == Len(chunks)
           normalized == [i \in 1..Len(embeddings) |-> normalize_L2(embeddings[i])]
       IN  [raised |-> FALSE,
            store |-> Store(
              chunks \o batch,
              index \o normalized,
              [id \in (DOMAIN id_to_idx) \cup IdsOf(batch) |->
                 IF id \in IdsOf(batch)
                 THEN start_idx + (CHOOSE i \in 1..Len(batch) :
                        /\ batch[i].chunk_id = id
                        /\ \A j \in (i + 1)..Len(batch) : batch[j].chunk_id # id)
                 ELSE id_to_idx[id]])]

\* the embeddings a caller passes to add: one per text
EmbeddingsOf(texts) == [i \in 1..Len(texts) |-> Embed(texts[i])]

\* a bug that returns the first k chunks in the order they were added
search_InsertionOrder(query_embedding, top_k) ==
  [i \in 1..Min(top_k, Len(chunks)) |->
     Entry(chunks[i], InnerProduct(normalize_L2(query_embedding), index[i]))]

\* InMemoryVectorStore.search: the k = min(top_k, len(chunks)) vectors of
\* highest inner product, best first, each with the chunk at its position
search(query_embedding, top_k) ==
  IF Len(chunks) = 0 THEN <<>>
  ELSE LET q == normalize_L2(query_embedding)
           k == Min(top_k, Len(chunks))
           hits == Take(SortDesc([i \in 1..Len(index) |->
                                    [pos |-> i, score |-> InnerProduct(q, index[i])]]), k)
           valid == SelectSeq(hits, LAMBDA h : h.pos <= Len(chunks))
       IN  [j \in 1..Len(valid) |-> Entry(chunks[valid[j].pos], valid[j].score)]

(***************************************************************************)
(* HybridSearchStore                                                       *)
(***************************************************************************)

\* doc.lower().split() of a one-word text
Tokens(text) == <<text>>

\* build_bm25_index: the tokenized contents of the store's chunks
TokenizedCorpusOf(cs) == [i \in 1..Len(cs) |-> Tokens(cs[i].content)]

\* BM25Okapi.get_scores for one document, reduced to the number of its
\* tokens that are query tokens
Bm25Score(query_tokens, doc_tokens) ==
  Cardinality({i \in 1..Len(doc_tokens) :
                 \E j \in 1..Len(query_tokens) : doc_tokens[i] = query_tokens[j]})

RECURSIVE MaxOf(_)
MaxOf(s) == IF Len(s) = 1 THEN s[1]
            ELSE LET m == MaxOf(Tail(s)) IN IF s[1] >= m THEN s[1] ELSE m

HasKey(d, id) == \E i \in 1..Len(d) : d[i].chunk.chunk_id = id

\* combined_scores[chunk.chunk_id] = {...vector_score...}: a dict keeps a
\* key at the place of its first insertion
RECURSIVE PutVector(_, _)
PutVector(d, entries) ==
  IF entries = <<>> THEN d
  ELSE LET e == Head(entries)
           item == [chunk |-> e.chunk, vector_score |-> e.score, bm25_score |-> 0]
           d2 == IF HasKey(d, e.chunk.chunk_id)
                 THEN [i \in 1..Len(d) |->
                         IF d[i].chunk.chunk_id = e.chunk.chunk_id THEN item ELSE d[i]]
                 ELSE Append(d, item)
       IN  PutVector(d2, Tail(entries))

\* the loop over enumerate(bm25_scores), from position pos on
RECURSIVE PutBm25(_, _, _, _)
PutBm25(d, scores, max_bm25, pos) ==
  IF pos > Len(scores) THEN d
  ELSE IF pos > Len(chunks) THEN PutBm25(d, scores, max_bm25, pos + 1)
  ELSE LET c == chunks[pos]
           norm == (ScoreUnit * scores[pos]) \div max_bm25
           d2 == IF HasKey(d, c.chunk_id)
                 THEN [i \in 1..Len(d) |->
                         IF d[i].chunk.chunk_id = c.chunk_id
                         THEN [d[i] EXCEPT !.bm25_score = norm] ELSE d[i]]
                 ELSE Append(d, [chunk |-> c, vector_score |-> 0, bm25_score |-> norm])
       IN  PutBm25(d2, scores, max_bm25, pos + 1)

\* a bug that adds the two scores unweighted
CombinedScoreAt_Unweighted(item, alpha) == item.vector_score + item.bm25_score

\* alpha * vector_score + (1 - alpha) * bm25_score, alpha in hundredths
CombinedScoreAt(item, alpha) ==
  (alpha * item.vector_score + (ScoreUnit - alpha) * item.bm25_score) \div ScoreUnit

\* the combination under the default alpha
CombinedScore(item) == CombinedScoreAt(item, AlphaPct)

\* HybridSearchStore.hybrid_search(query, query_embedding, top_k, alpha)
hybrid_search_alpha(query, query_embedding, top_k, alpha) ==
  LET vector_results == search(query_embedding, top_k * 2)
      bm25_scores == [i \in 1..Len(tokenized_corpus) |->
                        Bm25Score(Tokens(query), tokenized_corpus[i])]
      max_bm25 == IF Len(bm25_scores) > 0 /\ MaxOf(bm25_scores) > 0
                  THEN MaxOf(bm25_scores) ELSE 1
      combined_scores == PutBm25(PutVector(<<>>, vector_results), bm25_scores, max_bm25, 1)
      scored == [i \in 1..Len(combined_scores) |->
                   Entry(combined_scores[i].chunk,
                         CombinedScoreAt(combined_scores[i], alpha))]
  IN  Take(SortDesc(scored), top_k)

\* hybrid_search called without alpha, as the pipeline calls it
hybrid_search(query, query_embedding, top_k) ==
  hybrid_search_alpha(query, query_embedding, top_k, AlphaPct)

(***************************************************************************)
(* Reranker                                                                *)
(***************************************************************************)

\* CrossEncoder.predict for one (query, content) pair, in hundredths: two
\* relevance models
Predict(model, query, content) ==
  IF model = "lexical" THEN (IF content = query THEN ScoreUnit ELSE 0)
  ELSE (IF content = query THEN 0 ELSE ScoreUnit)

\* a bug that leaves each candidate its previous score
Rescore_KeepsPrevious(model, query, candidates) == candidates

\* reranked = [(candidates[i][0], float(scores[i])) ...]
Rescore(model, query, candidates) ==
  [i \in 1..Len(candidates) |->
     Entry(candidates[i].chunk, Predict(model, query, candidates[i].chunk.content))]

\* Reranker.rerank(query, candidates, top_k) with self.model = model
rerank(model, query, candidates, top_k) ==
  IF candidates = <<>> THEN <<>>
  ELSE IF model = "unavailable" THEN Take(candidates, top_k)
  ELSE Take(SortDesc(Rescore(model, query, candidates)), top_k)

(***************************************************************************)
(* RetrievalPipeline.retrieve                                              *)
(***************************************************************************)

\* a bug that keeps every candidate
Deduplicate_KeepsAll(candidates) == candidates

\* a bug that lets a later entry of a chunk_id replace the one kept
RECURSIVE Deduplicate_KeepsLast(_)
Deduplicate_KeepsLast(candidates) ==
  IF candidates = <<>> THEN <<>>
  ELSE LET front == Deduplicate_KeepsLast(SubSeq(candidates, 1, Len(candidates) - 1))
           last == candidates[Len(candidates)]
       IN  IF \E i \in 1..Len(front) : front[i].chunk.chunk_id = last.chunk.chunk_id
           THEN [i \in 1..Len(front) |->
                   IF front[i].chunk.chunk_id = last.chunk.chunk_id THEN last
                   ELSE front[i]]
           ELSE Append(front, last)

\* the loop over all_candidates with the `seen` set: the first entry of each
\* chunk_id, in order
RECURSIVE Deduplicate(_)
Deduplicate(candidates) ==
  IF candidates = <<>> THEN <<>>
  ELSE LET front == Deduplicate(SubSeq(candidates, 1, Len(candidates) - 1))
           last == candidates[Len(candidates)]
       IN  IF \E i \in 1..Len(front) : front[i].chunk.chunk_id = last.chunk.chunk_id
           THEN front ELSE Append(front, last)

\* the candidates of one query variant
Candidates(q, top_k) ==
  IF use_hybrid THEN hybrid_search(q, Embed(q), top_k * 2)
  ELSE search(Embed(q), top_k * 2)

RECURSIVE AllCandidates(_, _)
AllCandidates(qs, top_k) ==
  IF qs = <<>> THEN <<>>
  ELSE Candidates(Head(qs), top_k) \o AllCandidates(Tail(qs), top_k)

\* `if rerank and self.reranker: ... else: sorted(...)[:top_k]`
FinalRanking(query, unique_candidates, top_k, do_rerank) ==
  IF do_rerank /\ reranker # "absent"
  THEN rerank(reranker, query, unique_candidates, top_k)
  ELSE Take(SortDesc(unique_candidates), top_k)

\* RetrievalPipeline.retrieve(query, top_k, rerank, expand_query), given the
\* variants the expander returns
retrieve(query, qs, top_k, do_rerank) ==
  FinalRanking(query, Deduplicate(AllCandidates(qs, top_k)), top_k, do_rerank)

\* the sequences over S of length at most n
RECURSIVE SeqsUpTo(_, _)
SeqsUpTo(S, n) ==
  IF n = 0 THEN {<<>>}
  ELSE LET shorter == SeqsUpTo(S, n - 1)
       IN  shorter \cup {Append(s, x) : s \in {t \in shorter : Len(t) = n - 1}, x \in S}

\* a store filled by add(), a pipeline constructed over it (in hybrid mode the
\* BM25 index was built at construction, over the chunks held then: all of
\* them, or those before the uploads that followed)
RetrievalInit ==
  /\ chunks \in SeqsUpTo(ChunkTypes, MaxChunks)
  /\ index = IndexOf(chunks)
  /\ id_to_idx = IdToIdxOf(chunks)
  /\ use_hybrid \in (IF chunks = <<>> THEN {FALSE} ELSE BOOLEAN)
  /\ tokenized_corpus \in
       (IF use_hybrid
        THEN {TokenizedCorpusOf(Take(chunks, n)) : n \in 1..Len(chunks)}
        ELSE {<<>>})
  /\ reranker \in {"absent", "unavailable", "lexical", "reversed"}
  /\ r_pc = "idle"
  /\ call = NoCall
  /\ queries = <<>>
  /\ results = <<>>
  /\ doc_ids = {}
  /\ received = [kind |-> "nothing"]
  /\ StoreIdle /\ BudgetIdle /\ RegistryIdle /\ RestIdle
  \* no agent runs
  /\ mode = "execute"
  /\ provider = "anthropic"
  /\ pc = "idle"
  /\ needs_tools = FALSE
  /\ n_chunks = 0
  /\ iteration = -1
  /\ response = NoResponse
  /\ idx = 0
  /\ tools_used = <<>>
  /\ final_answer = None
  /\ result = None
  /\ events = <<>>
  /\ client_error = FALSE
  /\ trace = <<>>
  /\ llm_calls = 0
  /\ handler_calls = 0
  /\ budget_checks = 0
  /\ budget_increments = 0
  /\ provider_failed = FALSE

\* the top_k values requested
TopKs == {1, 2}

\* the most calls of other requests on the store while one retrieve awaits
MaxConcurrent == 2

\* all_candidates.extend(candidates), over the lists found per variant
RECURSIVE Extend(_)
Extend(found) == IF found = <<>> THEN <<>> ELSE Head(found) \o Extend(Tail(found))

\* retrieve is called without query expansion: queries = [query],
\* all_candidates = [], and the loop awaits encode_async for the query
RetrievePlain ==
  /\ r_pc = "idle"
  /\ \E query \in Queries, top_k \in TopKs, do_rerank \in BOOLEAN :
       /\ call' = [query |-> query, top_k |-> top_k, rerank |-> do_rerank,
                   expand_query |-> FALSE, found |-> <<>>, concurrent |-> 0,
                   before_first |-> 0]
       /\ queries' = <<query>>
  /\ r_pc' = "searching"
  /\ UNCHANGED <<chunks, index, id_to_idx, use_hybrid, tokenized_corpus, reranker,
                 results, nonRetrievalVars>>

\* retrieve is called with expand_query: it awaits expand_with_llm(query)
RetrieveExpanded ==
  /\ r_pc = "idle"
  /\ \E query \in Queries, top_k \in TopKs, do_rerank \in BOOLEAN :
       call' = [query |-> query, top_k |-> top_k, rerank |-> do_rerank,
                expand_query |-> TRUE, found |-> <<>>, concurrent |-> 0,
                before_first |-> 0]
  /\ r_pc' = "expanding"
  /\ UNCHANGED <<chunks, index, id_to_idx, use_hybrid, tokenized_corpus, reranker,
                 queries, results, nonRetrievalVars>>

\* expand_with_llm returns the original query followed by its paraphrases;
\* all_candidates = [], and the loop awaits encode_async for the first
\* variant
ExpandReturn ==
  /\ r_pc = "expanding"
  /\ \E paraphrases \in SeqsUpTo(Queries, MaxVariants - 1) :
       queries' = <<call.query>> \o paraphrases
  /\ r_pc' = "searching"
  /\ UNCHANGED <<chunks, index, id_to_idx, use_hybrid, tokenized_corpus, reranker,
                 call, results, nonRetrievalVars>>

\* one turn of `for q in queries`: encode_async([q]) returns, then the
\* search over the store as it is now; the next turn awaits again
SearchVariant ==
  /\ r_pc = "searching"
  /\ Len(call.found) < Len(queries)
  /\ call' = [call EXCEPT
                !.found = Append(@, Candidates(queries[Len(call.found) + 1], call.top_k))]
  /\ UNCHANGED <<chunks, index, id_to_idx, use_hybrid, tokenized_corpus, reranker,
                 r_pc, queries, results, nonRetrievalVars>>

\* after the loop: deduplicate, rank, return
RetrieveReturn ==
  /\ r_pc = "searching"
  /\ Len(call.found) = Len(queries)
  /\ results' = FinalRanking(call.query, Deduplicate(Extend(call.found)), call.top_k,
                             call.rerank)
  /\ r_pc' = "returned"
  /\ UNCHANGED <<chunks, index, id_to_idx, use_hybrid, tokenized_corpus, reranker,
                 call, queries, nonRetrievalVars>>

\* retrieve is suspended: in expand_with_llm, or in encode_async for a
\* variant not yet searched (the first one included), be it called by
\* retrieve_by_document or not
RetrieveAwaits ==
  \/ r_pc = "expanding"
  \/ r_pc = "searching" /\ Len(call.found) < Len(queries)
  \/ r_pc = "searching_by_document"

\* while retrieve is suspended, an upload's vector_store.add(embeddings,
\* chunks) runs; the BM25 index is not rebuilt
AddWhileSearching ==
  /\ RetrieveAwaits
  /\ call.concurrent < MaxConcurrent
  /\ Len(chunks) < MaxChunks
  /\ \E c \in ChunkTypes :
       LET out == add(EmbeddingsOf(<<c.content>>), <<c>>)
       IN  /\ chunks' = out.store.chunks
           /\ index' = out.store.index
           /\ id_to_idx' = out.store.id_to_idx
  /\ call' = [call EXCEPT !.concurrent = @ + 1,
                          !.before_first = IF call.found = <<>> THEN @ + 1 ELSE @]
  /\ UNCHANGED <<use_hybrid, tokenized_corpus, reranker, r_pc, queries, results,
                 nonRetrievalVars>>

\* while retrieve is suspended, /index runs vector_store.clear(); the BM25
\* index is not rebuilt
ClearWhileSearching ==
  /\ RetrieveAwaits
  /\ call.concurrent < MaxConcurrent
  /\ chunks' = <<>>
  /\ index' = <<>>
  /\ id_to_idx' = EmptyDict
  /\ call' = [call EXCEPT !.concurrent = @ + 1,
                          !.before_first = IF call.found = <<>> THEN @ + 1 ELSE @]
  /\ UNCHANGED <<use_hybrid, tokenized_corpus, reranker, r_pc, queries, results,
                 nonRetrievalVars>>

RetrievalNext ==
  \/ RetrievePlain
  \/ RetrieveExpanded
  \/ ExpandReturn
  \/ SearchVariant
  \/ RetrieveReturn
  \/ AddWhileSearching
  \/ ClearWhileSearching

(***************************************************************************)
(* Properties of retrieve                                                  *)
(***************************************************************************)

\* C9: the list retrieve returns has at most top_k entries and no two
\* entries with the same chunk_id, whatever the corpus (chunk_ids repeated
\* or not), the query variants, the flags and the pipeline's mode.
C9_AtMostTopKAndNoDuplicateIds ==
  r_pc = "returned"
    => /\ Len(results) <= call.top_k
       /\ \A i, j \in 1..Len(results) :
            results[i].chunk.chunk_id = results[j].chunk.chunk_id => i = j

\* a corpus that repeats a chunk_id, changed by another request before the
\* first search, several variants, and a full result
C9_Witness ==
  /\ r_pc = "returned"
  /\ call.before_first >= 1
  /\ \E i, j \in 1..Len(chunks) : i # j /\ chunks[i].chunk_id = chunks[j].chunk_id
  /\ Len(queries) >= 2 /\ queries[1] # queries[2]
  /\ call.top_k = 2 /\ Len(results) = 2
  /\ Len(chunks) > 2 * call.top_k

\* C10: the list retrieve returns is ordered by non-increasing score,
\* whatever the rerank and expansion flags and whether or not the
\* reranker's model is available.
C10_ResultSortedByScore ==
  r_pc = "returned"
    => \A i \in 1..(Len(results) - 1) : results[i].score >= results[i + 1].score

\* the first entry of all with the chunk_id id
FirstOccurrence(all, id) ==
  all[CHOOSE i \in 1..Len(all) :
        /\ all[i].chunk.chunk_id = id
        /\ \A j \in 1..(i - 1) : all[j].chunk.chunk_id # id]

\* the call's scores are those of the search: no model rescored them
NotRescored == ~call.rerank \/ reranker \in {"absent", "unavailable"}

\* C35: of the candidates merged over the query variants (the original query
\* first, then the variants in the order the expander returned them), the
\* deduplicated list holds for each chunk_id the chunk and score of its first
\* occurrence, in order of first occurrence; every entry returned carries
\* that chunk, and that score unless a reranking model rescored it.
C35_FirstOccurrenceKept ==
  r_pc = "returned"
    => LET all == Extend(call.found)
           unique == Deduplicate(all)
       IN  /\ queries[1] = call.query
           /\ \A i \in 1..Len(unique) :
                unique[i] = FirstOccurrence(all, unique[i].chunk.chunk_id)
           /\ \A i \in 1..Len(all) :
                \E j \in 1..Len(unique) : unique[j].chunk.chunk_id = all[i].chunk.chunk_id
           /\ \A i \in 1..Len(results) :
                LET first == FirstOccurrence(all, results[i].chunk.chunk_id)
                IN  /\ results[i].chunk = first.chunk
                    /\ NotRescored => results[i].score = first.score

\* the store is changed by other requests before the first search and
\* between the searches; two different variants both find a chunk, with
\* different scores, and the result carries it with the score of the
\* original query's search
C35_Witness ==
  /\ r_pc = "returned"
  /\ call.before_first >= 1 /\ call.concurrent > call.before_first
  /\ Len(queries) = 2 /\ queries[1] # queries[2]
  /\ NotRescored
  /\ LET first == call.found[1]
         second == call.found[2]
     IN  \E i \in 1..Len(first), j \in 1..Len(second), k \in 1..Len(results) :
           /\ first[i].chunk.chunk_id = second[j].chunk.chunk_id
           /\ first[i].score # second[j].score
           /\ \A h \in 1..(i - 1) : first[h].chunk.chunk_id # first[i].chunk.chunk_id
           /\ results[k] = first[i]

(***************************************************************************)
(* RetrievalPipeline.__init__, retrieve_by_document and its callers        *)
(***************************************************************************)

\* the documents of ChunkTypes
DocIds == {"d1", "d2"}

\* BM25Okapi(tokenized_corpus): rank_bm25 computes the average document
\* length as total length / corpus size, a ZeroDivisionError on no document
BM25Okapi_ok(corpus) == Len(corpus) > 0

\* a store filled by add() (or empty), and a pipeline about to be constructed
\* over it
PipelineInit ==
  /\ chunks \in SeqsUpTo(ChunkTypes, MaxChunks)
  /\ index = IndexOf(chunks)
  /\ id_to_idx = IdToIdxOf(chunks)
  /\ use_hybrid \in BOOLEAN
  /\ tokenized_corpus = <<>>
  /\ reranker \in {"absent", "unavailable", "lexical", "reversed"}
  /\ r_pc = "new"
  /\ call = NoCall
  /\ queries = <<>>
  /\ results = <<>>
  /\ doc_ids = {}
  /\ received = [kind |-> "nothing"]
  /\ StoreIdle /\ BudgetIdle /\ RegistryIdle /\ RestIdle
  \* no agent runs
  /\ mode = "execute"
  /\ provider = "anthropic"
  /\ pc = "idle"
  /\ needs_tools = FALSE
  /\ n_chunks = 0
  /\ iteration = -1
  /\ response = NoResponse
  /\ idx = 0
  /\ tools_used = <<>>
  /\ final_answer = None
  /\ result = None
  /\ events = <<>>
  /\ client_error = FALSE
  /\ trace = <<>>
  /\ llm_calls = 0
  /\ handler_calls = 0
  /\ budget_checks = 0
  /\ budget_increments = 0
  /\ provider_failed = FALSE

\* RetrievalPipeline.__init__: in hybrid mode it builds the BM25 index
Construct ==
  /\ r_pc = "new"
  /\ IF use_hybrid
     THEN IF BM25Okapi_ok(TokenizedCorpusOf(chunks))
          THEN /\ tokenized_corpus' = TokenizedCorpusOf(chunks)
               /\ r_pc' = "idle"
          ELSE /\ r_pc' = "construct_raised"
               /\ UNCHANGED tokenized_corpus
     ELSE /\ r_pc' = "idle"
          /\ UNCHANGED tokenized_corpus
  /\ UNCHANGED <<chunks, index, id_to_idx, use_hybrid, reranker, call, queries, results,
                 nonRetrievalVars>>

\* filtered = [(chunk, score) for ... if chunk.doc_id in doc_ids]
FilterByDocument(candidates, ids) ==
  SelectSeq(candidates, LAMBDA e : e.chunk.doc_id \in ids)

\* RetrievalPipeline.retrieve_by_document(query, doc_ids, top_k)
retrieve_by_document(query, ids, top_k) ==
  LET candidates == retrieve(query, <<query>>, top_k * 3, FALSE)
      filtered == FilterByDocument(candidates, ids)
      reranked == IF reranker # "absent" /\ filtered # <<>>
                  THEN rerank(reranker, query, filtered, top_k)
                  ELSE filtered
  IN  Take(reranked, top_k)

\* retrieve_by_document is called: it awaits retrieve(query, top_k * 3,
\* rerank=False), which awaits encode_async for the query
RetrieveByDocument ==
  /\ r_pc = "idle"
  /\ \E query \in Queries, top_k \in TopKs, ids \in (SUBSET DocIds) \ {{}} :
       /\ call' = [query |-> query, top_k |-> top_k, rerank |-> FALSE,
                   expand_query |-> FALSE, found |-> <<>>, concurrent |-> 0,
                   before_first |-> 0]
       /\ queries' = <<query>>
       /\ doc_ids' = ids
  /\ r_pc' = "searching_by_document"
  /\ UNCHANGED <<chunks, index, id_to_idx, use_hybrid, tokenized_corpus, reranker,
                 results, received, agentVars, storeVars, budgetVars, registryVars,
                 restVars>>

\* encode_async returns: retrieve searches the store as it is now and
\* returns, retrieve_by_document filters, reranks and returns
ByDocumentReturn ==
  /\ r_pc = "searching_by_document"
  /\ results' = retrieve_by_document(call.query, doc_ids, call.top_k)
  /\ r_pc' = "returned_by_document"
  /\ UNCHANGED <<chunks, index, id_to_idx, use_hybrid, tokenized_corpus, reranker,
                 call, queries, doc_ids, received, agentVars, storeVars, budgetVars,
                 registryVars, restVars>>

\* multi_document_query_endpoint and compare_documents:
\* `chunks, _ = await ...retrieve_by_document(...)` unpacks the returned list
\* into two names: a list of two entries binds chunks to its first entry, a
\* list of any other length raises ValueError
CallerUnpack ==
  /\ r_pc = "returned_by_document"
  /\ IF Len(results) = 2
     THEN /\ received' = [kind |-> "scored_chunk", chunk |-> results[1].chunk,
                          score |-> results[1].score]
          /\ r_pc' = "caller_bound"
     ELSE /\ r_pc' = "caller_raised"
          /\ UNCHANGED received
  /\ UNCHANGED <<chunks, index, id_to_idx, use_hybrid, tokenized_corpus, reranker,
                 call, queries, results, doc_ids, agentVars, storeVars, budgetVars,
                 registryVars, restVars>>

PipelineNext ==
  \/ Construct
  \/ RetrievePlain
  \/ SearchVariant
  \/ RetrieveReturn
  \/ RetrieveByDocument
  \/ ByDocumentReturn
  \/ CallerUnpack
  \/ AddWhileSearching
  \/ ClearWhileSearching

\* C11: retrieve_by_document returns at most top_k scored chunks, each of a
\* document in doc_ids, and its callers (the multi-document endpoint,
\* compare_documents) receive that ranked list (stated here for the calls
\* that return at least one chunk).
C11_ByDocumentResultReachesCaller ==
  /\ r_pc \in {"returned_by_document", "caller_bound", "caller_raised"}
       => /\ Len(results) <= call.top_k
          /\ \A i \in 1..Len(results) : results[i].chunk.doc_id \in doc_ids
  /\ (r_pc \in {"caller_bound", "caller_raised"} /\ results # <<>>)
       => r_pc = "caller_bound" /\ received.kind = "ranked_list"

\* C12: over an empty corpus, constructing the pipeline raises nothing and
\* retrieve returns an empty list, in vector-only and in hybrid mode.
C12_EmptyCorpusGivesEmptyResult ==
  chunks = <<>>
    => /\ r_pc # "construct_raised"
       /\ r_pc = "returned" => results = <<>>

(***************************************************************************)
(* InMemoryVectorStore: add, search, get_by_id, clear                      *)
(***************************************************************************)

\* the values the agent's variables keep while no agent runs
NoAgent ==
  /\ mode = "execute"
  /\ provider = "anthropic"
  /\ pc = "idle"
  /\ needs_tools = FALSE
  /\ n_chunks = 0
  /\ iteration = -1
  /\ response = NoResponse
  /\ idx = 0
  /\ tools_used = <<>>
  /\ final_answer = None
  /\ result = None
  /\ events = <<>>
  /\ client_error = FALSE
  /\ trace = <<>>
  /\ llm_calls = 0
  /\ handler_calls = 0
  /\ budget_checks = 0
  /\ budget_increments = 0
  /\ provider_failed = FALSE

\* the values the pipeline's variables keep while no pipeline is examined
NoPipeline ==
  /\ use_hybrid = FALSE
  /\ tokenized_corpus = <<>>
  /\ reranker = "absent"
  /\ r_pc = "new"
  /\ call = NoCall
  /\ queries = <<>>
  /\ doc_ids = {}
  /\ received = [kind |-> "nothing"]

\* a bug that returns the first chunk of the store for every id
get_by_id_FirstChunk(chunk_id) ==
  IF chunks # <<>> THEN [is_none |-> FALSE, chunk |-> chunks[1]] ELSE [is_none |-> TRUE]

\* InMemoryVectorStore.get_by_id(chunk_id): the chunk, or None
get_by_id(chunk_id) ==
  IF chunk_id \in DOMAIN id_to_idx
       /\ id_to_idx[chunk_id] >= 1 /\ id_to_idx[chunk_id] <= Len(chunks)
  THEN [is_none |-> FALSE, chunk |-> chunks[id_to_idx[chunk_id]]]
  ELSE [is_none |-> TRUE]

\* InMemoryVectorStore.size
size == Len(chunks)

\* the chunk_ids asked for: those of ChunkTypes and one no chunk has
AskedIds == {"a", "b", "c", "zz"}

\* a new, empty store
StoreInit ==
  /\ chunks = <<>>
  /\ index = <<>>
  /\ id_to_idx = EmptyDict
  /\ results = <<>>
  /\ StoreIdle
  /\ NoPipeline /\ NoAgent /\ BudgetIdle /\ RegistryIdle /\ RestIdle

\* what the store's operations leave alone
nonStoreVars == <<use_hybrid, tokenized_corpus, reranker, r_pc, call, queries, docVars,
                  agentVars, budgetVars, registryVars, restVars>>

\* add(embeddings, chunks), the embeddings as many as the chunks or not
StoreAdd ==
  /\ \E batch \in SeqsUpTo(ChunkTypes, MaxBatch), n_embeddings \in 0..MaxBatch :
       /\ Len(chunks) + Len(batch) <= MaxChunks
       /\ LET embeddings == IF n_embeddings = Len(batch)
                            THEN EmbeddingsOf([i \in 1..Len(batch) |-> batch[i].content])
                            ELSE EmbeddingsOf([i \in 1..n_embeddings |-> "east"])
              out == add(embeddings, batch)
          IN  /\ chunks' = out.store.chunks
              /\ index' = out.store.index
              /\ id_to_idx' = out.store.id_to_idx
              /\ store_op' = [op |-> "add", raised |-> out.raised,
                              n_embeddings |-> Len(embeddings), n_chunks |-> Len(batch),
                              before |-> Store(chunks, index, id_to_idx)]
              /\ n_added' = IF out.raised THEN n_added ELSE n_added + Len(batch)
              /\ ids_added' = IF out.raised THEN ids_added ELSE ids_added \cup IdsOf(batch)
  /\ UNCHANGED <<results, nonStoreVars>>

\* clear()
StoreClear ==
  /\ chunks' = <<>>
  /\ index' = <<>>
  /\ id_to_idx' = EmptyDict
  /\ store_op' = [op |-> "clear"]
  /\ n_added' = 0
  /\ ids_added' = {}
  /\ UNCHANGED <<results, nonStoreVars>>

\* search(query_embedding, top_k)
StoreSearch ==
  /\ \E q \in Queries, k \in 1..(MaxChunks + 1) :
       store_op' = [op |-> "search", query |-> q, k |-> k, returned |-> search(Embed(q), k)]
  /\ UNCHANGED <<chunks, index, id_to_idx, results, n_added, ids_added, nonStoreVars>>

\* get_by_id(chunk_id)
StoreGetById ==
  /\ \E id \in AskedIds :
       store_op' = [op |-> "get_by_id", id |-> id, returned |-> get_by_id(id)]
  /\ UNCHANGED <<chunks, index, id_to_idx, results, n_added, ids_added, nonStoreVars>>

StoreNext == StoreAdd \/ StoreClear \/ StoreSearch \/ StoreGetById

\* C13: when N chunks were added since the last clear, size is N and
\* search(q, k) returns exactly min(k, N) results, in non-increasing order
\* of score.
C13_SizeAndSearch ==
  /\ size = n_added
  /\ store_op.op = "search"
       => /\ Len(store_op.returned) = Min(store_op.k, n_added)
          /\ \A i \in 1..(Len(store_op.returned) - 1) :
               store_op.returned[i].score >= store_op.returned[i + 1].score

\* a search cut by k, over a store of several chunks, with scores that differ
C13_Witness ==
  /\ store_op.op = "search"
  /\ n_added >= 3
  /\ Len(store_op.returned) = store_op.k
  /\ store_op.k < n_added
  /\ \E i \in 1..(Len(store_op.returned) - 1) :
       store_op.returned[i].score > store_op.returned[i + 1].score

\* C14: get_by_id(id) returns a chunk whose chunk_id is id for every id added
\* since the last clear, and None for every other id.
C14_GetById ==
  store_op.op = "get_by_id"
    => IF store_op.id \in ids_added
       THEN ~store_op.returned.is_none /\ store_op.returned.chunk.chunk_id = store_op.id
       ELSE store_op.returned.is_none

\* an id found behind another chunk, in a store that holds an id twice
C14_Witness ==
  /\ store_op.op = "get_by_id"
  /\ ~store_op.returned.is_none
  /\ chunks[1].chunk_id # store_op.id
  /\ \E i, j \in 1..Len(chunks) : i # j /\ chunks[i].chunk_id = chunks[j].chunk_id

\* C15: add with len(embeddings) # len(chunks) raises and leaves the chunk
\* list, the id-to-position map and the indexed vectors as they were.
C15_AddMismatchLeavesStore ==
  (store_op.op = "add" /\ store_op.n_embeddings # store_op.n_chunks)
    => /\ store_op.raised
       /\ Store(chunks, index, id_to_idx) = store_op.before

\* a mismatched add on a store that holds chunks
C15_Witness ==
  /\ store_op.op = "add"
  /\ store_op.n_embeddings # store_op.n_chunks
  /\ store_op.n_chunks >= 1
  /\ store_op.raised
  /\ Len(chunks) >= 1

(***************************************************************************)
(* ActionBudgetGuard                                                       *)
(***************************************************************************)

Sessions == {"s1"}

\* the guards examined: one whose lifetime cap is below its per-minute cap
\* (as main.py constructs it: 10 and 20), one whose lifetime cap is above it
GuardConfigs ==
  {[max_actions_per_session |-> 2, max_actions_per_minute |-> 3, reset_after_seconds |-> 100],
   [max_actions_per_session |-> 3, max_actions_per_minute |-> 2, reset_after_seconds |-> 100]}

\* d.get(k, default)
Get(d, k, default) == IF k \in DOMAIN d THEN d[k] ELSE default

\* d[k] = v
Put(d, k, v) == [x \in (DOMAIN d) \cup {k} |-> IF x = k THEN v ELSE d[x]]

\* d.pop(k, None)
Pop(d, k) == [x \in (DOMAIN d) \ {k} |-> d[x]]

\* the guard's three dicts
GuardState(c, t, w) ==
  [session_counts |-> c, session_timestamps |-> t, minute_windows |-> w]

\* a bug that keeps the lifetime count over a reset
reset_KeepsCount(g, sid) ==
  GuardState(g.session_counts, Pop(g.session_timestamps, sid), Pop(g.minute_windows, sid))

\* ActionBudgetGuard.reset(session_id)
reset(g, sid) ==
  GuardState(Pop(g.session_counts, sid), Pop(g.session_timestamps, sid),
             Pop(g.minute_windows, sid))

\* a bug that never discards a timestamp from the window
Prune_KeepsAll(window, t) == window

\* window[:] = [ts for ts in window if now - ts < 60]
Prune(window, t) == SelectSeq(window, LAMBDA ts : t - ts < WindowSeconds)

\* ActionBudgetGuard._check_minute_limit(session_id, now): what it returns and
\* the guard it leaves
check_minute_limit(g, sid, t) ==
  LET window == Prune(Get(g.minute_windows, sid, <<>>), t)
  IN  [returned |-> Len(window) < guard.max_actions_per_minute,
       state |-> [g EXCEPT !.minute_windows = Put(@, sid, window)]]

\* `now - self.session_timestamps[session_id] > self.reset_after_seconds`
Expired(g, sid, t) ==
  /\ sid \in DOMAIN g.session_timestamps
  /\ t - g.session_timestamps[sid] > guard.reset_after_seconds

\* a bug that lets one action more through than the lifetime cap
SessionLimitReached_OffByOne(session_count) ==
  session_count > guard.max_actions_per_session

\* `session_count >= self.max_actions_per_session`
SessionLimitReached(session_count) ==
  session_count >= guard.max_actions_per_session

\* ActionBudgetGuard.check_budget(session_id) at time t: what it returns and
\* the guard it leaves
check_budget(g, sid, t) ==
  LET g1 == IF Expired(g, sid, t) THEN reset(g, sid) ELSE g
  IN  IF SessionLimitReached(Get(g1.session_counts, sid, 0))
      THEN [returned |-> FALSE, state |-> g1]
      ELSE check_minute_limit(g1, sid, t)

\* ActionBudgetGuard.increment(session_id) at time t
increment(g, sid, t) ==
  GuardState(Put(g.session_counts, sid, Get(g.session_counts, sid, 0) + 1),
             Put(g.session_timestamps, sid, t),
             Put(g.minute_windows, sid, Append(Get(g.minute_windows, sid, <<>>), t)))

\* the guard as it stands
Guard == GuardState(session_counts, session_timestamps, minute_windows)

\* a guard just constructed
BudgetInit ==
  /\ guard \in GuardConfigs
  /\ now = 0
  /\ session_counts = EmptyDict
  /\ session_timestamps = EmptyDict
  /\ minute_windows = EmptyDict
  /\ budget_op = NoOp
  /\ increments = EmptyDict
  /\ gated = TRUE
  /\ chunks = <<>>
  /\ index = <<>>
  /\ id_to_idx = EmptyDict
  /\ results = <<>>
  /\ NoPipeline /\ NoAgent /\ StoreIdle /\ RegistryIdle /\ RestIdle

\* what the guard's operations leave alone
nonBudgetVars == <<agentVars, retrievalVars, docVars, storeVars, registryVars, restVars>>

\* time passes
Tick ==
  /\ now + TimeStep <= MaxTime
  /\ now' = now + TimeStep
  /\ UNCHANGED <<guard, session_counts, session_timestamps, minute_windows, budget_op,
                 increments, gated, nonBudgetVars>>

\* check_budget(session_id)
CheckBudget ==
  /\ \E sid \in Sessions :
       LET out == check_budget(Guard, sid, now)
       IN  /\ session_counts' = out.state.session_counts
           /\ session_timestamps' = out.state.session_timestamps
           /\ minute_windows' = out.state.minute_windows
           /\ budget_op' = [op |-> "check_budget", session |-> sid, at |-> now,
                            returned |-> out.returned, before |-> Guard,
                            increments_before |-> Get(increments, sid, <<>>)]
           /\ increments' = IF Expired(Guard, sid, now) THEN Pop(increments, sid)
                            ELSE increments
  /\ UNCHANGED <<guard, now, gated, nonBudgetVars>>

\* increment(session_id)
Increment ==
  /\ \E sid \in Sessions :
       /\ Len(Get(increments, sid, <<>>)) < MaxIncrements
       /\ LET g == increment(Guard, sid, now)
          IN  /\ session_counts' = g.session_counts
              /\ session_timestamps' = g.session_timestamps
              /\ minute_windows' = g.minute_windows
       /\ increments' = Put(increments, sid, Append(Get(increments, sid, <<>>), now))
       /\ gated' = (gated /\ budget_op.op = "check_budget" /\ budget_op.session = sid
                          /\ budget_op.returned)
       /\ budget_op' = [op |-> "increment", session |-> sid, at |-> now]
  /\ UNCHANGED <<guard, now, nonBudgetVars>>

\* reset(session_id)
Reset ==
  /\ \E sid \in Sessions :
       /\ LET g == reset(Guard, sid)
          IN  /\ session_counts' = g.session_counts
              /\ session_timestamps' = g.session_timestamps
              /\ minute_windows' = g.minute_windows
       /\ increments' = Pop(increments, sid)
       /\ budget_op' = [op |-> "reset", session |-> sid, at |-> now]
  /\ UNCHANGED <<guard, now, gated, nonBudgetVars>>

BudgetNext == Tick \/ CheckBudget \/ Increment \/ Reset

\* the increments of history h that are less than 60 seconds old at time t
RecentIncrements(h, t) == Cardinality({i \in 1..Len(h) : t - h[i] < WindowSeconds})

\* C16 as stated: after max_actions_per_minute increments within 60 seconds
\* check_budget returns false, and once 60 seconds have passed since those
\* increments it returns true again.
C16_WindowClosesAndReopens ==
  budget_op.op = "check_budget"
    => LET h == budget_op.increments_before
           t == budget_op.at
       IN  /\ RecentIncrements(h, t) >= guard.max_actions_per_minute
                => ~budget_op.returned
           /\ (Len(h) = guard.max_actions_per_minute /\ RecentIncrements(h, t) = 0)
                => budget_op.returned

\* C16, amended: after max_actions_per_minute increments within 60 seconds
\* check_budget returns false; once 60 seconds have passed since those
\* increments it returns true again if the session's lifetime count is below
\* max_actions_per_session (or its TTL has passed), and stays false otherwise.
C16_WindowReopensBelowLifetimeCap ==
  budget_op.op = "check_budget"
    => LET h == budget_op.increments_before
           t == budget_op.at
           below_cap == \/ Len(h) < guard.max_actions_per_session
                        \/ Expired(budget_op.before, budget_op.session, t)
       IN  /\ RecentIncrements(h, t) >= guard.max_actions_per_minute
                => ~budget_op.returned
           /\ (Len(h) = guard.max_actions_per_minute /\ RecentIncrements(h, t) = 0)
                => (budget_op.returned <=> below_cap)

\* the window reopened: max_actions_per_minute increments, all of them 60
\* seconds old or older and the TTL not passed, and check_budget returns true
C16_Witness ==
  /\ budget_op.op = "check_budget"
  /\ Len(budget_op.increments_before) = guard.max_actions_per_minute
  /\ RecentIncrements(budget_op.increments_before, budget_op.at) = 0
  /\ ~Expired(budget_op.before, budget_op.session, budget_op.at)
  /\ budget_op.returned

\* C17: while increment is called only directly after a check_budget that
\* returned true, a session's increments since its last reset never exceed
\* max_actions_per_session, and no 60 seconds (the window that ends with an
\* increment and starts less than 60 seconds before it) hold more than
\* max_actions_per_minute of them.
C17_GatedIncrementsStayWithinCaps ==
  gated
    => \A sid \in DOMAIN increments :
         LET h == increments[sid]
         IN  /\ Len(h) <= guard.max_actions_per_session
             /\ \A i \in 1..Len(h) :
                  Cardinality({j \in 1..Len(h) :
                                 h[j] <= h[i] /\ h[i] - h[j] < WindowSeconds})
                    <= guard.max_actions_per_minute

\* a session that used its whole lifetime budget under a smaller per-minute
\* cap, so that the window held an increment back
C17_Witness ==
  /\ gated
  /\ guard.max_actions_per_minute < guard.max_actions_per_session
  /\ \E sid \in DOMAIN increments : Len(increments[sid]) = guard.max_actions_per_session

\* C18: a check_budget on a session whose last recorded activity (its last
\* increment) is more than reset_after_seconds old clears its count and its
\* window and returns true, even at the lifetime cap; a session whose last
\* activity is within the TTL keeps its count and its timestamp.
C18_IdleSessionIsReset ==
  budget_op.op = "check_budget"
    => LET b == budget_op.before
           sid == budget_op.session
       IN  sid \in DOMAIN b.session_timestamps
             => IF budget_op.at - b.session_timestamps[sid] > guard.reset_after_seconds
                THEN /\ budget_op.returned
                     /\ Get(session_counts, sid, 0) = 0
                     /\ Get(minute_windows, sid, <<>>) = <<>>
                ELSE /\ session_counts = b.session_counts
                     /\ session_timestamps = b.session_timestamps

\* a session at its lifetime cap, idle for longer than the TTL, is let through
C18_Witness ==
  /\ budget_op.op = "check_budget"
  /\ Get(budget_op.before.session_counts, budget_op.session, 0)
       >= guard.max_actions_per_session
  /\ Expired(budget_op.before, budget_op.session, budget_op.at)
  /\ budget_op.returned

(***************************************************************************)
(* ToolRegistry: register and execute_tool                                 *)
(***************************************************************************)

\* a handler: what it does when called, whether it is a coroutine function,
\* and the exception it raises if it raises
Handler(id, behaviour, is_async, exception) ==
  [id |-> id, behaviour |-> behaviour, is_async |-> is_async, exception |-> exception]

\* the handlers registered: echo handlers (def echo(**kwargs): return kwargs),
\* sync and async, and handlers that raise
Handlers ==
  {Handler("echo_sync", "echo", FALSE, "none"),
   Handler("echo_async", "echo", TRUE, "none"),
   Handler("raises_runtime", "raises", FALSE, "RuntimeError"),
   Handler("raises_value", "raises", TRUE, "ValueError")}

\* the names tools are registered under, and a name that never is
ToolNames == {"echo", "web_navigate"}
AskedNames == ToolNames \cup {"missing"}

\* the tool_input dicts: {} and {"x": 1}
ToolInputs == {EmptyDict, [k \in {"x"} |-> 1]}

\* a bug that calls the handler a second time
Invocations_Twice(tool, tool_input) ==
  <<[handler |-> tool.id, kwargs |-> tool_input], [handler |-> tool.id, kwargs |-> tool_input]>>

\* `await tool.function(**tool_input)` or `tool.function(**tool_input)`: the
\* calls the handler receives
Invocations(tool, tool_input) ==
  <<[handler |-> tool.id, kwargs |-> tool_input]>>

\* what a handler does with the keyword arguments it is called with
HandlerOutcome(tool, kwargs) ==
  IF tool.behaviour = "echo"
  THEN [kind |-> "returned", value |-> kwargs]
  ELSE [kind |-> "raised", type |-> tool.exception, message |-> "handler failed",
        cause |-> "none"]

\* the description and parameters a tool is registered with
ToolSpecs ==
  {[description |-> "first description", parameters |-> EmptyDict],
   [description |-> "second description", parameters |-> [k \in {"type"} |-> "object"]]}

\* Tool(name=name, description=description, parameters=parameters,
\* function=function)
Tool(name, description, parameters, function) ==
  [name |-> name, description |-> description, parameters |-> parameters,
   function |-> function]

\* the keys of self.tools, a dict kept as the list of its values in insertion
\* order
Names(registered) == {registered[i].name : i \in DOMAIN registered}

\* where self.tools holds the key `name`
Position(registered, name) == CHOOSE i \in DOMAIN registered : registered[i].name = name

\* ToolRegistry.get_tool: self.tools.get(name)
get_tool(registered, name) ==
  IF name \in Names(registered) THEN registered[Position(registered, name)] ELSE None

\* ToolRegistry.execute_tool(tool_name, tool_input) over the registry
\* `registered`: its outcome and the handler calls it made
ToolRegistry_execute_tool(registered, tool_name, tool_input) ==
  LET tool == get_tool(registered, tool_name)
  IN  IF tool_name \notin Names(registered)   \* `if not tool`
      THEN [outcome |-> [kind |-> "raised", type |-> "ValueError",
                         message |-> <<"Tool not found: ", tool_name>>, cause |-> "none"],
            invocations |-> <<>>]
      ELSE [outcome |-> HandlerOutcome(tool.function, tool_input),
            invocations |-> Invocations(tool.function, tool_input)]

\* ToolRegistry.execute(name, **kwargs), the synchronous call: it returns
\* tool.function(**kwargs) without awaiting, so a coroutine function gives
\* back its coroutine object and its body does not run
ToolRegistry_execute(registered, name, kwargs) ==
  LET tool == get_tool(registered, name)
  IN  IF name \notin Names(registered)   \* `if not tool`
      THEN [outcome |-> [kind |-> "raised", type |-> "ValueError",
                         message |-> <<"Tool ", name, " not found">>, cause |-> "none"],
            invocations |-> <<>>]
      ELSE IF tool.function.is_async
      THEN [outcome |-> [kind |-> "returned",
                         value |-> [coroutine |-> tool.function.id, kwargs |-> kwargs]],
            invocations |-> <<>>]
      ELSE [outcome |-> HandlerOutcome(tool.function, kwargs),
            invocations |-> Invocations(tool.function, kwargs)]

\* a new registry
RegistryInit ==
  /\ tools = EmptyDict
  /\ registry_op = NoOp
  /\ handler_log = <<>>
  /\ latest = EmptyDict
  /\ chunks = <<>>
  /\ index = <<>>
  /\ id_to_idx = EmptyDict
  /\ results = <<>>
  /\ NoPipeline /\ NoAgent /\ StoreIdle /\ BudgetIdle /\ RestIdle

\* what the registry's operations leave alone
nonRegistryVars == <<agentVars, retrievalVars, docVars, storeVars, budgetVars, restVars>>

\* a bug that keeps the tool already registered under a name
register_KeepsFirst(registered, name, description, parameters, function) ==
  IF name \in Names(registered) THEN registered
  ELSE Append(registered, Tool(name, description, parameters, function))

\* ToolRegistry.register: self.tools[name] = Tool(...); assigning to a key the
\* dict holds replaces the value where it stands, a new key goes last
register(registered, name, description, parameters, function) ==
  LET tool == Tool(name, description, parameters, function)
  IN  IF name \in Names(registered)
      THEN [registered EXCEPT ![Position(registered, name)] = tool]
      ELSE Append(registered, tool)

\* register(name, description, parameters, function)
Register ==
  /\ \E name \in ToolNames, ts \in ToolSpecs, h \in Handlers :
       /\ tools' = register(tools, name, ts.description, ts.parameters, h)
       /\ registry_op' = [op |-> "register", name |-> name, handler |-> h.id]
       /\ latest' = Put(latest, name, [handler |-> h.id, again |-> name \in DOMAIN latest])
  /\ handler_log' = <<>>
  /\ UNCHANGED nonRegistryVars

\* ToolRegistry.get_tool_schemas: one schema per tool of self.tools.values(),
\* in the dict's order
get_tool_schemas(registered) ==
  [i \in 1..Len(registered) |->
     [name |-> registered[i].name,
      description |-> registered[i].description,
      input_schema |-> registered[i].parameters]]

\* get_tool_schemas()
GetToolSchemas ==
  /\ registry_op' = [op |-> "get_tool_schemas", returned |-> get_tool_schemas(tools)]
  /\ handler_log' = <<>>
  /\ UNCHANGED <<tools, latest, nonRegistryVars>>

\* execute_tool(tool_name, tool_input); handler_log takes the handler calls
\* this call made
ExecuteToolCall ==
  /\ \E name \in AskedNames, tool_input \in ToolInputs :
       LET out == ToolRegistry_execute_tool(tools, name, tool_input)
       IN  /\ registry_op' = [op |-> "execute_tool", name |-> name, input |-> tool_input,
                              outcome |-> out.outcome]
           /\ handler_log' = out.invocations
  /\ UNCHANGED <<tools, latest, nonRegistryVars>>

\* execute(name, **kwargs); handler_log takes the handler bodies that ran
ExecuteSync ==
  /\ \E name \in AskedNames, kwargs \in ToolInputs :
       LET out == ToolRegistry_execute(tools, name, kwargs)
       IN  /\ registry_op' = [op |-> "execute", name |-> name, input |-> kwargs,
                              outcome |-> out.outcome]
           /\ handler_log' = out.invocations
  /\ UNCHANGED <<tools, latest, nonRegistryVars>>

RegistryNext == Register \/ ExecuteToolCall \/ ExecuteSync \/ GetToolSchemas

\* C19: execute_tool on a name that is not registered fails with a
\* tool-not-found error and calls no handler; on a registered name it calls
\* that tool's handler exactly once with the given input and returns the
\* handler's result (an echo handler returns its input).
C19_ExecuteToolLooksUpAndInvokesOnce ==
  registry_op.op = "execute_tool"
    => IF registry_op.name \notin Names(tools)
       THEN /\ registry_op.outcome.kind = "raised"
            /\ registry_op.outcome.message = <<"Tool not found: ", registry_op.name>>
            /\ handler_log = <<>>
       ELSE /\ handler_log = <<[handler |-> get_tool(tools, registry_op.name).function.id,
                                kwargs |-> registry_op.input]>>
            /\ get_tool(tools, registry_op.name).function.behaviour = "echo"
                 => /\ registry_op.outcome.kind = "returned"
                    /\ registry_op.outcome.value = registry_op.input

\* execute_tool("echo", {"x": 1}) on an async echo handler, with a second
\* tool registered, returns {"x": 1}
C19_Witness ==
  /\ registry_op.op = "execute_tool"
  /\ registry_op.name = "echo"
  /\ Names(tools) = ToolNames
  /\ get_tool(tools, "echo").function.behaviour = "echo"
  /\ get_tool(tools, "echo").function.is_async
  /\ get_tool(tools, "web_navigate").function.id # get_tool(tools, "echo").function.id
  /\ registry_op.input = [k \in {"x"} |-> 1]
  /\ registry_op.outcome.kind = "returned"
  /\ registry_op.outcome.value = [k \in {"x"} |-> 1]

\* C20: when a registered tool's handler fails, execute_tool raises a
\* ToolExecutionError that carries the handler's exception as its cause, and
\* that differs from the tool-not-found error.
C20_HandlerFailureIsTyped ==
  (/\ registry_op.op = "execute_tool"
   /\ registry_op.name \in Names(tools)
   /\ get_tool(tools, registry_op.name).function.behaviour = "raises")
    => /\ registry_op.outcome.kind = "raised"
       /\ registry_op.outcome.type = "ToolExecutionError"
       /\ registry_op.outcome.cause = get_tool(tools, registry_op.name).function.exception

\* C21: after any sequence of register calls the registry holds one tool per
\* distinct name registered, the one of the latest registration under that
\* name; execute_tool invokes that handler, and get_tool_schemas lists exactly
\* one schema per registered name.
C21_LastRegistrationWins ==
  /\ Names(tools) = DOMAIN latest
  /\ Len(tools) = Cardinality(DOMAIN latest)
  /\ \A name \in Names(tools) : get_tool(tools, name).function.id = latest[name].handler
  /\ (registry_op.op = "execute_tool" /\ registry_op.name \in DOMAIN latest)
       => handler_log = <<[handler |-> latest[registry_op.name].handler,
                           kwargs |-> registry_op.input]>>
  /\ registry_op.op = "get_tool_schemas"
       => /\ Len(registry_op.returned) = Cardinality(DOMAIN latest)
          /\ \A name \in DOMAIN latest :
               Cardinality({i \in 1..Len(registry_op.returned) :
                              registry_op.returned[i].name = name}) = 1

\* two names registered, one of them a second time, and execute_tool called
\* on that one
C21_Witness ==
  /\ registry_op.op = "execute_tool"
  /\ Names(tools) = ToolNames
  /\ registry_op.name = "echo"
  /\ latest["echo"].again
  /\ handler_log # <<>>
  /\ handler_log[1].handler = "raises_value"

(***************************************************************************)
(* ConversationManager: add_message, _summarize_conversation, get_context  *)
(***************************************************************************)

\* the most add_message calls examined
MaxMessages == 8

\* max_history_length and summarization_threshold, scaled down from 10 and 20
MaxHistoryLength == 2
SummarizationThreshold == 4

Max(a, b) == IF a >= b THEN a ELSE b

\* a text is a list of pieces, each piece whitespace or a string without any
Space == " "

\* len(text.split()): the number of maximal runs of non-whitespace
RECURSIVE WordCount(_, _)
WordCount(text, in_word) ==
  IF text = <<>> THEN 0
  ELSE IF Head(text) = Space THEN WordCount(Tail(text), FALSE)
  ELSE (IF in_word THEN 0 ELSE 1) + WordCount(Tail(text), TRUE)

\* A Python float below 2^20 is held exactly, as a count of 2^-52 in three
\* limbs of 20 bits: [hi, mid, lo] stands for (hi * 2^40 + mid * 2^20 + lo) / 2^52
Limb == 2^20

Double(hi, mid, lo) == [hi |-> hi, mid |-> mid, lo |-> lo]

\* the carries of a sum or product taken limb by limb
Carry(hi, mid, lo) ==
  LET m == mid + lo \div Limb
  IN  Double(hi + m \div Limb, m % Limb, lo % Limb)

\* how many bits the count has beyond the 53 of a double's significand
RECURSIVE ExcessBits(_)
ExcessBits(hi) == IF hi < 2^13 THEN 0 ELSE 1 + ExcessBits(hi \div 2)

\* the exact value rounded to the nearest double, ties to the even one
RoundToDouble(v) ==
  LET k == ExcessBits(v.hi)
      unit == 2^k
      r == v.lo % unit
      up == r * 2 > unit \/ (r * 2 = unit /\ (v.lo \div unit) % 2 = 1)
  IN  IF k = 0 THEN v
      ELSE Carry(v.hi, v.mid, v.lo - r + (IF up THEN unit ELSE 0))

\* the float literal 1.3: 0x3FF4CCCCCCCCCCCD, 5854679515581645 / 2^52
OnePointThree == Double(5324, 838860, 838861)

\* float(n) of an int
FromInt(n) == Double(n * 2^12, 0, 0)

\* n * d of an int and a float, and a + b of two floats: the exact result,
\* rounded once
FMul(n, d) == RoundToDouble(Carry(n * d.hi, n * d.mid, n * d.lo))
FAdd(a, b) == RoundToDouble(Carry(a.hi + b.hi, a.mid + b.mid, a.lo + b.lo))

\* a < b
FLess(a, b) ==
  \/ a.hi < b.hi
  \/ a.hi = b.hi /\ a.mid < b.mid
  \/ a.hi = b.hi /\ a.mid = b.mid /\ a.lo < b.lo

\* len(message['content'].split()) * 1.3
message_tokens(content) == FMul(WordCount(content, FALSE), OnePointThree)

\* f"Conversation covered {len(to_summarize)} messages."
Summary(n) == <<"Conversation", Space, "covered", Space, ToString(n), Space, "messages.">>

\* the synthetic message get_context puts before the others (timestamp None,
\* written 0)
SummaryMessage(summary) ==
  [role |-> "system",
   content |-> <<"Previous", Space, "conversation", Space, "summary:", Space>> \o summary,
   timestamp |-> 0]

\* the message add_message builds; the timestamp is the count of calls
Message(role, content, t) == [role |-> role, content |-> content, timestamp |-> t]

\* ConversationManager.__init__
ConversationManager(max_history, max_history_length, summarization_threshold) ==
  [max_history |-> max_history,
   max_history_length |-> IF max_history_length # 0 THEN max_history_length
                          ELSE max_history,
   summarization_threshold |-> summarization_threshold]

\* the managers examined: max_history equal to max_history_length (the
\* defaults), and max_history given alone as main.py gives it
ManagerConfigs ==
  {ConversationManager(MaxHistoryLength, MaxHistoryLength, SummarizationThreshold),
   ConversationManager(1, MaxHistoryLength, SummarizationThreshold)}

\* the roles and contents add_message is called with
MessageKinds ==
  {[role |-> "user", content |-> <<"hi">>],
   [role |-> "assistant", content |-> <<"a", Space, "b", Space, "c">>]}

\* the max_tokens get_context is called with (2000 is what /query passes)
ContextBudgets == {6, 10, 13, 2000}

\* the manager's dicts, the tasks it created, and the history kept about it
Manager(c, m, t, k, a) ==
  [conversations |-> c, summaries |-> m, tasks |-> t, clock |-> k, added |-> a]

\* messages[-n:] for n > 0
LastN(messages, n) == SubSeq(messages, Max(Len(messages) - n, 0) + 1, Len(messages))

\* _summarize_conversation(session_id); conversations is a defaultdict, so
\* reading a missing session creates it empty
_summarize_conversation(c, st, session_id) ==
  LET messages == Get(st.conversations, session_id, <<>>)
      to_summarize == SubSeq(messages, 1, Max(Len(messages) - c.max_history_length, 0))
  IN  IF to_summarize = <<>>
      THEN [st EXCEPT !.conversations = Put(@, session_id, messages)]
      ELSE [st EXCEPT !.summaries = Put(@, session_id, Summary(Len(to_summarize))),
                      !.conversations =
                          Put(@, session_id, LastN(messages, c.max_history_length))]

\* add_message(conversation_id, role, content) under the event loop lp that
\* asyncio.get_event_loop() finds: a running one (create_task), a stopped
\* one (asyncio.run), or none (RuntimeError, the trimming branch)
add_message(c, lp, st, conversation_id, role, content) ==
  LET message == Message(role, content, st.clock)
      appended == Append(Get(st.conversations, conversation_id, <<>>), message)
      st1 == [st EXCEPT !.conversations = Put(@, conversation_id, appended),
                        !.clock = @ + 1,
                        !.added = Put(@, conversation_id,
                                      Append(Get(st.added, conversation_id, <<>>),
                                             message))]
  IN  IF Len(appended) > c.summarization_threshold
      THEN CASE lp = "running" -> [st1 EXCEPT !.tasks = Append(@, conversation_id)]
             [] lp = "stopped" -> _summarize_conversation(c, st1, conversation_id)
             [] OTHER ->
                  IF Len(appended) > c.max_history_length * 2
                  THEN [st1 EXCEPT !.conversations =
                            Put(@, conversation_id,
                                LastN(appended, c.max_history_length))]
                  ELSE st1
      ELSE st1

\* the event loop asyncio.get_event_loop() finds after the call: asyncio.run
\* closes the loop it ran the summarization on and leaves the thread with none
loop_after(c, lp, st, conversation_id) ==
  IF /\ lp = "stopped"
     /\ Len(Get(st.conversations, conversation_id, <<>>)) + 1 > c.summarization_threshold
  THEN "none"
  ELSE lp

\* create_conversation(): a new uuid4 key with an empty list
create_conversation(st, conversation_id) ==
  [st EXCEPT !.conversations = Put(@, conversation_id, <<>>)]

\* a bug that clears every session
clear_conversation_All(st, conversation_id) ==
  [st EXCEPT !.conversations = EmptyDict, !.summaries = EmptyDict, !.added = EmptyDict]

\* clear_conversation(conversation_id)
clear_conversation(st, conversation_id) ==
  [st EXCEPT !.conversations = Pop(@, conversation_id),
             !.summaries = Pop(@, conversation_id),
             !.added = Pop(@, conversation_id)]

\* a bug that takes every message, whatever the budget
FitCount_All(messages, i, total, max_tokens) == i

\* the loop of get_context over reversed(messages), at messages[i] with
\* total_tokens = total: how many more of the messages it takes
RECURSIVE FitCount(_, _, _, _)
FitCount(messages, i, total, max_tokens) ==
  IF i = 0 THEN 0
  ELSE LET tokens == message_tokens(messages[i].content)
       IN  IF FLess(FromInt(max_tokens), FAdd(total, tokens)) THEN 0
           ELSE 1 + FitCount(messages, i - 1, FAdd(total, tokens), max_tokens)

\* total_tokens after the loop has taken the messages of context: 0, then
\* `total_tokens += message_tokens` from the latest message backwards
RECURSIVE total_tokens(_)
total_tokens(context) ==
  IF context = <<>> THEN FromInt(0)
  ELSE FAdd(total_tokens(Tail(context)), message_tokens(Head(context).content))

\* get_context(session_id, max_tokens)
get_context(st, session_id, max_tokens) ==
  IF session_id \notin DOMAIN st.conversations THEN <<>>
  ELSE LET messages == st.conversations[session_id]
           context == LastN(messages,
                            FitCount(messages, Len(messages), FromInt(0), max_tokens))
           summary_tokens == message_tokens(st.summaries[session_id])
       IN  IF /\ session_id \in DOMAIN st.summaries
              /\ FLess(FAdd(total_tokens(context), summary_tokens), FromInt(max_tokens))
           THEN <<SummaryMessage(st.summaries[session_id])>> \o context
           ELSE context

\* the manager as the variables hold it
Current == Manager(conversations, summaries, tasks, clock, added)

\* the variables take the manager's new state
Becomes(st) ==
  /\ conversations' = st.conversations
  /\ summaries' = st.summaries
  /\ tasks' = st.tasks
  /\ clock' = st.clock
  /\ added' = st.added

\* an empty store and no retrieve call
NoStore ==
  /\ chunks = <<>>
  /\ index = <<>>
  /\ id_to_idx = EmptyDict
  /\ results = <<>>

\* a manager just constructed
ConversationInit ==
  /\ cm \in ManagerConfigs
  /\ loop \in {"running", "stopped", "none"}
  /\ conversations = EmptyDict
  /\ summaries = EmptyDict
  /\ tasks = <<>>
  /\ clock = 1
  /\ added = EmptyDict
  /\ conv_op = NoOp
  /\ NoStore /\ NoPipeline /\ NoAgent /\ StoreIdle /\ BudgetIdle /\ RegistryIdle
  /\ QueryIdle /\ ApplyIdle

\* what the manager's operations leave alone
nonConvVars == <<agentVars, retrievalVars, docVars, storeVars, budgetVars, registryVars,
                 requests, applied, index_pc, folder, lateVars>>

\* add_message(session, role, content)
AddMessage ==
  /\ clock <= MaxMessages
  /\ \E s \in Sessions, k \in MessageKinds :
       /\ Becomes(add_message(cm, loop, Current, s, k.role, k.content))
       /\ loop' = loop_after(cm, loop, Current, s)
       /\ conv_op' = [op |-> "add_message", session |-> s]
  /\ UNCHANGED <<cm, nonConvVars>>

\* create_conversation(): the uuid is one no dict holds and no task names
CreateConversation ==
  /\ \E s \in Sessions :
       /\ s \notin DOMAIN conversations \cup DOMAIN summaries \cup DOMAIN added
       /\ \A i \in 1..Len(tasks) : tasks[i] # s
       /\ Becomes(create_conversation(Current, s))
       /\ conv_op' = [op |-> "create_conversation", session |-> s]
  /\ UNCHANGED <<cm, loop, nonConvVars>>

\* the event loop runs the oldest task add_message created
RunSummarize ==
  /\ tasks # <<>>
  /\ Becomes(_summarize_conversation(cm, [Current EXCEPT !.tasks = Tail(@)], Head(tasks)))
  /\ conv_op' = [op |-> "summarize", session |-> Head(tasks)]
  /\ UNCHANGED <<cm, loop, nonConvVars>>

\* get_context(session, max_tokens)
GetContext ==
  /\ \E s \in Sessions, max_tokens \in ContextBudgets :
       conv_op' = [op |-> "get_context", session |-> s, max_tokens |-> max_tokens,
                   returned |-> get_context(Current, s, max_tokens)]
  /\ UNCHANGED <<cm, loop, conversations, summaries, tasks, clock, added, nonConvVars>>

\* clear_conversation(session)
ClearConversation ==
  /\ \E s \in Sessions :
       /\ Becomes(clear_conversation(Current, s))
       /\ conv_op' = [op |-> "clear", session |-> s]
  /\ UNCHANGED <<cm, loop, nonConvVars>>

ConversationNext ==
  AddMessage \/ CreateConversation \/ RunSummarize \/ GetContext \/ ClearConversation

\* no _summarize_conversation task of the session waits
Settled(s) == \A i \in 1..Len(tasks) : tasks[i] # s

\* C22: once add_message has made a session's message count exceed
\* summarization_threshold and the summarization it triggered has completed,
\* the session has a non-empty summary and exactly max_history live messages,
\* the most recent ones, with a running event loop or without one.
C22_SummaryAndMaxHistoryLiveMessages ==
  \A s \in DOMAIN added :
    (Len(added[s]) > cm.summarization_threshold /\ Settled(s))
      => /\ s \in DOMAIN summaries
         /\ WordCount(summaries[s], FALSE) > 0
         /\ conversations[s] = LastN(added[s], cm.max_history)

\* C23: the estimated token count of everything get_context returns, the
\* synthetic summary message included, never exceeds max_tokens.
C23_ContextWithinMaxTokens ==
  conv_op.op = "get_context"
    => ~FLess(FromInt(conv_op.max_tokens), total_tokens(conv_op.returned))

\* C29: after any number of summarizations the summary accounts for every
\* message removed from the live list since the last clear (stated for the
\* sessions that have a summary), the live list is the remaining suffix in
\* insertion order, and no message is lost or duplicated.
C29_SummaryCoversDiscardedPrefix ==
  \A s \in DOMAIN added :
    LET live == Get(conversations, s, <<>>)
        discarded == Len(added[s]) - Len(live)
    IN  /\ live = LastN(added[s], Len(live))
        /\ s \in DOMAIN summaries => summaries[s] = Summary(discarded)

\* the messages of a context without the synthetic summary message
NonSummary(context) == SelectSeq(context, LAMBDA m : m.timestamp # 0)

\* C34: a session whose live message count is at or below
\* summarization_threshold keeps its live messages and its summary: a
\* summarization task that runs then changes neither, and add_message only
\* appends, whatever tasks are pending.
C34_AtOrBelowThresholdNothingIsTrimmed ==
  [][\A s \in Sessions :
       LET live == Get(conversations, s, <<>>)
       IN  /\ (conv_op'.op = "summarize" /\ Len(live) <= cm.summarization_threshold)
                => /\ Get(conversations', s, <<>>) = live
                   /\ summaries' = summaries
           /\ (/\ conv_op'.op = "add_message"
               /\ conv_op'.session = s
               /\ Len(live) + 1 <= cm.summarization_threshold)
                => /\ Len(conversations'[s]) = Len(live) + 1
                   /\ SubSeq(conversations'[s], 1, Len(live)) = live
                   /\ summaries' = summaries]_vars

\* words x 1.3 summed over a list of messages in exact arithmetic, in tenths
\* of a token
RECURSIVE ExactTenths(_)
ExactTenths(messages) ==
  IF messages = <<>> THEN 0
  ELSE 13 * WordCount(Head(messages).content, FALSE) + ExactTenths(Tail(messages))

\* C37: the non-summary messages get_context returns are the longest suffix
\* of the session's live messages, in their order, whose token estimate does
\* not exceed max_tokens, the estimate being summed in floating point from
\* the latest message backwards; an unknown session yields an empty context;
\* get_context changes no session state.
C37_ContextIsLongestFittingSuffix ==
  /\ [](conv_op.op = "get_context"
          => LET live == Get(conversations, conv_op.session, <<>>)
                 msgs == NonSummary(conv_op.returned)
                 max_tokens == FromInt(conv_op.max_tokens)
             IN  /\ msgs = LastN(live, Len(msgs))
                 /\ ~FLess(max_tokens, total_tokens(msgs))
                 /\ Len(msgs) < Len(live)
                      => FLess(max_tokens, total_tokens(LastN(live, Len(msgs) + 1)))
                 /\ conv_op.session \notin DOMAIN conversations => conv_op.returned = <<>>)
  /\ [][conv_op'.op = "get_context"
          => UNCHANGED <<conversations, summaries, tasks>>]_vars

\* C37 as the specification words it, the estimate summed exactly: the
\* message before the returned ones would take the sum above max_tokens.
C37_LongestSuffixInExactArithmetic ==
  conv_op.op = "get_context"
    => LET live == Get(conversations, conv_op.session, <<>>)
           msgs == NonSummary(conv_op.returned)
       IN  Len(msgs) < Len(live)
             => ExactTenths(LastN(live, Len(msgs) + 1)) > 10 * conv_op.max_tokens

\* a budget of 13 tokens and four live messages of ten words: the sum of all
\* four is 13.000000000000002 and the last three are returned
C37_Witness ==
  /\ conv_op.op = "get_context"
  /\ conv_op.max_tokens = 13
  /\ conv_op.session \in DOMAIN conversations
  /\ Len(conversations[conv_op.session]) = 4
  /\ ExactTenths(conversations[conv_op.session]) = 130
  /\ Len(NonSummary(conv_op.returned)) = 3

(***************************************************************************)
(* POST /query: concurrent requests of one session                         *)
(***************************************************************************)

\* the requests in flight, all of session "s1"
Reqs == {"r1", "r2"}

\* the session of the requests
QuerySession == "s1"

\* request.query and the provider's answer
QueryText == <<"hi">>
AnswerText == <<"a", Space, "b", Space, "c">>

\* the locals of a request: its position, the history it read, and
\* (history) the timestamp of its user message
Request(p, history, user_at) == [pc |-> p, history |-> history, user_at |-> user_at]

\* a session that has had two exchanges already
RECURSIVE Exchanges(_, _)
Exchanges(st, n) ==
  IF n = 0 THEN st
  ELSE LET prior == Exchanges(st, n - 1)
       IN  add_message(ConversationManager(MaxHistoryLength, MaxHistoryLength,
                                           SummarizationThreshold), "running",
                       add_message(ConversationManager(MaxHistoryLength, MaxHistoryLength,
                                                       SummarizationThreshold), "running",
                                   prior, QuerySession, "user", QueryText),
                       QuerySession, "assistant", AnswerText)

\* the server running, the session new or two exchanges old, two requests
\* about to arrive
QueryInit ==
  /\ cm \in ManagerConfigs
  /\ loop = "running"
  /\ \E n \in {0, 2} :
       LET st == Exchanges(Manager(EmptyDict, EmptyDict, <<>>, 1, EmptyDict), n)
       IN  /\ conversations = st.conversations
           /\ summaries = st.summaries
           /\ tasks = st.tasks
           /\ clock = st.clock
           /\ added = st.added
  /\ conv_op = NoOp
  /\ requests = [r \in Reqs |-> Request("new", <<>>, 0)]
  /\ NoStore /\ NoPipeline /\ NoAgent /\ StoreIdle /\ BudgetIdle /\ RegistryIdle
  /\ ApplyIdle

\* what a /query request leaves alone
nonQueryVars == <<cm, loop, conv_op, agentVars, retrievalVars, docVars, storeVars,
                  budgetVars, registryVars, applied, index_pc, folder, lateVars>>

\* query_endpoint up to its first await: moderation passes, the history is
\* read with get_context(session_id, max_tokens=2000)
QueryStart(r) ==
  /\ requests[r].pc = "new"
  /\ requests' = [requests EXCEPT ![r] =
                    Request("retrieving", get_context(Current, QuerySession, 2000), 0)]
  /\ UNCHANGED <<conversations, summaries, tasks, clock, added, nonQueryVars>>

\* await retrieval_pipeline.retrieve(...) returns
QueryRetrieved(r) ==
  /\ requests[r].pc = "retrieving"
  /\ requests' = [requests EXCEPT ![r].pc = "generating"]
  /\ UNCHANGED <<conversations, summaries, tasks, clock, added, nonQueryVars>>

\* await llm_client.generate(...) returns: the two add_message calls follow
\* with no await between them
QueryGenerated(r) ==
  /\ requests[r].pc = "generating"
  /\ Becomes(add_message(cm, loop,
                         add_message(cm, loop, Current, QuerySession, "user", QueryText),
                         QuerySession, "assistant", AnswerText))
  /\ requests' = [requests EXCEPT ![r].pc = "done", ![r].user_at = clock]
  /\ UNCHANGED nonQueryVars

\* retrieve or generate raises: the except clause answers 500, nothing is
\* added to the conversation
QueryFailed(r) ==
  /\ requests[r].pc \in {"retrieving", "generating"}
  /\ requests' = [requests EXCEPT ![r].pc = "failed"]
  /\ UNCHANGED <<conversations, summaries, tasks, clock, added, nonQueryVars>>

\* the event loop runs a summarization task while the requests wait
QuerySummarize ==
  /\ tasks # <<>>
  /\ Becomes(_summarize_conversation(cm, [Current EXCEPT !.tasks = Tail(@)], Head(tasks)))
  /\ UNCHANGED <<requests, nonQueryVars>>

QueryNext ==
  \/ \E r \in Reqs : QueryStart(r)
  \/ \E r \in Reqs : QueryRetrieved(r)
  \/ \E r \in Reqs : QueryGenerated(r)
  \/ \E r \in Reqs : QueryFailed(r)
  \/ QuerySummarize

\* the history holds the message of timestamp t
InHistory(history, t) == \E i \in 1..Len(history) : history[i].timestamp = t

\* C30: two concurrent /query requests of one session behave as if
\* serialized: in the conversation every user message is followed at once by
\* the assistant reply of its own request, and the request that wrote second
\* built its prompt from a history holding the first request's two messages.
C30_SameSessionRequestsSerialized ==
  /\ \A s \in DOMAIN conversations :
       \A i \in 1..Len(conversations[s]) :
         conversations[s][i].role = "user"
           => /\ i < Len(conversations[s])
              /\ conversations[s][i + 1].role = "assistant"
              /\ conversations[s][i + 1].timestamp = conversations[s][i].timestamp + 1
  /\ \A r, q \in Reqs :
       (/\ requests[r].pc = "done"
        /\ requests[q].pc = "done"
        /\ requests[r].user_at < requests[q].user_at)
         => /\ InHistory(requests[q].history, requests[r].user_at)
            /\ InHistory(requests[q].history, requests[r].user_at + 1)

(***************************************************************************)
(* hybrid_search on its own: score fusion                                  *)
(***************************************************************************)

\* the alpha values passed, in hundredths
Alphas == {0, 30, AlphaPct, ScoreUnit}

\* a store with chunks and a BM25 index built over them, or over the first
\* of them only (chunks were added after the index was built)
HybridInit ==
  /\ chunks \in SeqsUpTo(ChunkTypes, MaxChunks) \ {<<>>}
  /\ index = IndexOf(chunks)
  /\ id_to_idx = IdToIdxOf(chunks)
  /\ use_hybrid = TRUE
  /\ tokenized_corpus \in {TokenizedCorpusOf(chunks), TokenizedCorpusOf(Take(chunks, 1))}
  /\ reranker = "absent"
  /\ r_pc = "idle"
  /\ call = NoCall
  /\ queries = <<>>
  /\ results = <<>>
  /\ doc_ids = {}
  /\ received = [kind |-> "nothing"]
  /\ NoAgent /\ StoreIdle /\ BudgetIdle /\ RegistryIdle
  /\ ConversationIdle /\ QueryIdle /\ ApplyIdle

\* what a call of a retrieval function on its own leaves alone
nonApplyVars == <<agentVars, retrievalVars, docVars, storeVars, budgetVars, registryVars,
                  convVars, requests, index_pc, folder, lateVars>>

\* hybrid_search(query, embedding of query, top_k, alpha)
HybridSearch ==
  /\ \E query \in Queries, top_k \in TopKs, alpha \in Alphas :
       applied' = [op |-> "hybrid_search", query |-> query, top_k |-> top_k,
                   alpha |-> alpha,
                   vector_results |-> search(Embed(query), top_k * 2),
                   returned |-> hybrid_search_alpha(query, Embed(query), top_k, alpha)]
  /\ UNCHANGED nonApplyVars

HybridNext == HybridSearch

\* the score is within [0, 1]
InUnit(score) == 0 <= score /\ score <= ScoreUnit

\* the chunk has a BM25 score: it stands at a position the index was built over
HasKeywordScore(c) ==
  \E pos \in 1..Min(Len(tokenized_corpus), Len(chunks)) : chunks[pos].chunk_id = c.chunk_id

\* C24: when the vector scores lie in [0, 1] (the keyword scores are
\* normalized into [0, 1], alpha is in [0, 1]), every combined score
\* hybrid_search returns lies in [0, 1], and a candidate found by the vector
\* search only is fused with a keyword term of 0.
C24_CombinedScoreInUnitInterval ==
  (/\ applied.op = "hybrid_search"
   /\ \A j \in 1..Len(applied.vector_results) : InUnit(applied.vector_results[j].score))
    => \A i \in 1..Len(applied.returned) :
         /\ InUnit(applied.returned[i].score)
         /\ ~HasKeywordScore(applied.returned[i].chunk)
              => \E j \in 1..Len(applied.vector_results) :
                   /\ applied.vector_results[j].chunk = applied.returned[i].chunk
                   /\ applied.returned[i].score =
                        (applied.alpha * applied.vector_results[j].score) \div ScoreUnit

\* a vector-only candidate is returned with a positive score, beside a
\* candidate that has a keyword score
C24_Witness ==
  /\ applied.op = "hybrid_search"
  /\ applied.alpha = AlphaPct
  /\ \A j \in 1..Len(applied.vector_results) : InUnit(applied.vector_results[j].score)
  /\ \E i \in 1..Len(applied.returned) :
       ~HasKeywordScore(applied.returned[i].chunk) /\ applied.returned[i].score = AlphaPct
  /\ \E i \in 1..Len(applied.returned) : HasKeywordScore(applied.returned[i].chunk)

(***************************************************************************)
(* Reranker.rerank on its own                                              *)
(***************************************************************************)

\* the most candidates passed to rerank
MaxCandidates == 3

\* the scores the candidates carry before reranking, in hundredths
PreviousScores == {20, 90}

\* the candidates: a chunk and its previous score
CandidateEntries == {Entry(c, sc) : c \in ChunkTypes, sc \in PreviousScores}

\* the reranker's model: None after the ImportError, or one of two models
RerankModels == {"unavailable", "lexical", "reversed"}

\* the top_k values passed to rerank
RerankTopKs == {1, 2}

\* no store, no pipeline: the reranker alone
RerankInit ==
  /\ NoStore /\ NoPipeline /\ NoAgent /\ StoreIdle /\ BudgetIdle /\ RegistryIdle
  /\ ConversationIdle /\ QueryIdle /\ ApplyIdle

\* rerank(query, candidates, top_k); the reranker keeps nothing between
\* calls, so one call is examined
Rerank ==
  /\ applied = NoOp
  /\ \E model \in RerankModels, query \in Queries, top_k \in RerankTopKs,
        candidates \in SeqsUpTo(CandidateEntries, MaxCandidates) :
       applied' = [op |-> "rerank", model |-> model, query |-> query,
                   candidates |-> candidates, top_k |-> top_k,
                   returned |-> rerank(model, query, candidates, top_k)]
  /\ UNCHANGED nonApplyVars

RerankNext == Rerank

\* how many entries of s satisfy Test
CountOf(s, Test(_)) == Cardinality({i \in 1..Len(s) : Test(s[i])})

\* C25: with a model, rerank returns the min(k, n) candidates of highest model
\* score in non-increasing order, each carrying the model's score in place of
\* its previous one; without a model it returns the first k candidates
\* unchanged; with no candidates it returns the empty list.
C25_RerankOrdersByModelScore ==
  applied.op = "rerank"
    => LET cands == applied.candidates
           out == applied.returned
           ModelScore(e) == Predict(applied.model, applied.query, e.chunk.content)
       IN  /\ cands = <<>> => out = <<>>
           /\ applied.model = "unavailable" => out = Take(cands, applied.top_k)
           /\ applied.model # "unavailable"
                => /\ Len(out) = Min(applied.top_k, Len(cands))
                   /\ \A i \in 1..Len(out) : out[i].score = ModelScore(out[i])
                   /\ \A i \in 1..(Len(out) - 1) : out[i].score >= out[i + 1].score
                   /\ \A c \in ChunkTypes :
                        CountOf(out, LAMBDA e : e.chunk = c)
                          <= CountOf(cands, LAMBDA e : e.chunk = c)
                   /\ \A t \in {0, ScoreUnit} :
                        CountOf(out, LAMBDA e : e.score >= t)
                          = Min(applied.top_k, CountOf(cands, LAMBDA e : ModelScore(e) >= t))

\* the model moves the last of three candidates to the front and replaces
\* its score
C25_Witness ==
  /\ applied.op = "rerank"
  /\ applied.model = "lexical"
  /\ Len(applied.candidates) = MaxCandidates
  /\ applied.top_k = 2
  /\ applied.returned[1].chunk = applied.candidates[MaxCandidates].chunk
  /\ applied.returned[1].chunk # applied.candidates[1].chunk
  /\ applied.returned[1].score # applied.candidates[MaxCandidates].score

(***************************************************************************)
(* QueryExpander: expand_query, expand_with_llm                            *)
(***************************************************************************)

\* the most lines in a provider's response
MaxLines == 4

\* variations[:4]
MaxVariations == 4

\* the queries expanded: a statement, a question by its first word, a
\* question by its mark, and the empty query
ExpandQueries == {<<"east">>, <<"What", Space, "east">>, <<"east", "?">>, <<>>}

\* str.lower() of a piece
Lower(piece) == IF piece = "What" THEN "what" ELSE piece

question_words == {"what", "how", "why", "when", "where", "who"}

\* _to_question(query)
_to_question(query) ==
  IF \E i \in 1..Len(query) : query[i] = "?" THEN query
  ELSE IF query # <<>> /\ Lower(Head(query)) \in question_words THEN query \o <<"?">>
  ELSE <<"What", Space, "is", Space>> \o query \o <<"?">>

\* _add_context_words(query)
_add_context_words(query) == <<"explain", Space>> \o query

\* expand_query(query)
expand_query(query) == <<query, _to_question(query), _add_context_words(query)>>

\* the lines a response is made of: numbered, headed "Alternative", blank,
\* plain, a bare number, and numbered after a leading space
LineTypes ==
  {<<"1.", Space, "east">>, <<"Alternative", Space, "phrasings:">>, <<Space>>,
   <<"west">>, <<"2.">>, <<Space, "2.", Space, "west">>}

\* what llm_client.generate does: answers with a text (its lines), raises, or
\* answers with None
ProviderOutcomes ==
  {[kind |-> "text", lines |-> ls] : ls \in SeqsUpTo(LineTypes, MaxLines)}
    \cup {[kind |-> "raises", lines |-> <<>>], [kind |-> "none", lines |-> <<>>]}

\* str.lstrip() and str.strip() of a text
RECURSIVE LStrip(_)
LStrip(text) ==
  IF text # <<>> /\ Head(text) = Space THEN LStrip(Tail(text)) ELSE text

RECURSIVE RStrip(_)
RStrip(text) ==
  IF text # <<>> /\ text[Len(text)] = Space
  THEN RStrip(SubSeq(text, 1, Len(text) - 1)) ELSE text

Strip(text) == RStrip(LStrip(text))

\* response.strip().split('\n') on the lines of response: leading and
\* trailing blank lines go, the first line loses its leading whitespace and
\* the last its trailing whitespace; an empty text splits into one empty line
RECURSIVE DropBlankHead(_)
DropBlankHead(lines) ==
  IF lines # <<>> /\ Strip(Head(lines)) = <<>> THEN DropBlankHead(Tail(lines)) ELSE lines

RECURSIVE DropBlankTail(_)
DropBlankTail(lines) ==
  IF lines # <<>> /\ Strip(lines[Len(lines)]) = <<>>
  THEN DropBlankTail(SubSeq(lines, 1, Len(lines) - 1)) ELSE lines

StripSplit(lines) ==
  LET kept == DropBlankTail(DropBlankHead(lines))
  IN  IF kept = <<>> THEN << <<>> >>
      ELSE [i \in 1..Len(kept) |->
              LET a == IF i = 1 THEN LStrip(kept[i]) ELSE kept[i]
              IN  IF i = Len(kept) THEN RStrip(a) ELSE a]

\* re.sub(r'^\d+\.\s*', '', line)
RemoveNumbering(line) ==
  IF line # <<>> /\ Head(line) \in {"1.", "2."} THEN LStrip(Tail(line)) ELSE line

\* the loop over lines, appending to variations
RECURSIVE ParseLines(_, _)
ParseLines(variations, lines) ==
  IF lines = <<>> THEN variations
  ELSE LET line == Head(lines)
           variation == Strip(RemoveNumbering(line))
       IN  IF Strip(line) # <<>> /\ Head(line) # "Alternative" /\ variation # <<>>
           THEN ParseLines(Append(variations, variation), Tail(lines))
           ELSE ParseLines(variations, Tail(lines))

\* a bug that returns every variation parsed
Limit_Unlimited(variations) == variations

\* variations[:4]
Limit(variations) == SubSeq(variations, 1, Min(MaxVariations, Len(variations)))

\* expand_with_llm(query): client tells whether an llm_client was given,
\* outcome what its generate call does
expand_with_llm(client, outcome, query) ==
  IF client = "absent" THEN [raised |-> FALSE, value |-> expand_query(query)]
  ELSE IF outcome.kind = "text"
       THEN [raised |-> FALSE,
             value |-> Limit(ParseLines(<<query>>, StripSplit(outcome.lines)))]
       ELSE \* generate raised, or None.strip() raised AttributeError: except Exception
            [raised |-> FALSE, value |-> expand_query(query)]

\* no store, no pipeline: the expander alone
ExpandInit ==
  /\ NoStore /\ NoPipeline /\ NoAgent /\ StoreIdle /\ BudgetIdle /\ RegistryIdle
  /\ ConversationIdle /\ QueryIdle /\ ApplyIdle

\* expand_with_llm(query); the expander keeps nothing between calls, so one
\* call is examined
ExpandWithLlm ==
  /\ applied = NoOp
  /\ \E client \in {"absent", "present"}, outcome \in ProviderOutcomes,
        query \in ExpandQueries :
       applied' = [op |-> "expand_with_llm", client |-> client, outcome |-> outcome,
                   query |-> query,
                   result |-> expand_with_llm(client, outcome, query)]
  /\ UNCHANGED nonApplyVars

ExpandNext == ExpandWithLlm

\* C26: for any query and any provider behaviour, query expansion returns
\* between 1 and 4 variants whose first element is the original query; a
\* provider failure is not raised to the caller but answered with the
\* heuristic variants.
C26_OneToFourVariantsOriginalFirst ==
  applied.op = "expand_with_llm"
    => /\ ~applied.result.raised
       /\ Len(applied.result.value) >= 1
       /\ Len(applied.result.value) <= 4
       /\ applied.result.value[1] = applied.query
       /\ (applied.client = "present" /\ applied.outcome.kind # "text")
            => applied.result.value = expand_query(applied.query)

\* a response of four usable lines is cut to three variants after the query
C26_Witness ==
  /\ applied.op = "expand_with_llm"
  /\ applied.client = "present"
  /\ applied.outcome.kind = "text"
  /\ Len(applied.outcome.lines) = MaxLines
  /\ \A i \in 1..MaxLines : applied.outcome.lines[i] \in {<<"1.", Space, "east">>, <<"west">>}
  /\ Len(applied.result.value) = 4
  /\ applied.result.value[2] = <<"east">>

(***************************************************************************)
(* POST /upload and POST /index beside hybrid search                       *)
(***************************************************************************)

\* the files after save(path) of the store st, over the files there were:
\* faiss.write_index, then pickle.dump of the chunks and the map into
\* {path}.chunks. "complete": both written; "index_only": the second file
\* could not be opened, it stays as it was; "chunks_cut": the dump raised
\* after open(..., 'wb') had emptied the file; "nothing": write_index raised
save(st, files, outcome) ==
  CASE outcome = "complete" ->
         [index |-> st.index, has_index |-> TRUE, chunks |-> st.chunks,
          id_to_idx |-> st.id_to_idx, has_chunks |-> TRUE]
    [] outcome = "index_only" ->
         [files EXCEPT !.index = st.index, !.has_index = TRUE]
    [] outcome = "chunks_cut" ->
         [index |-> st.index, has_index |-> TRUE, chunks |-> <<>>,
          id_to_idx |-> EmptyDict, has_chunks |-> FALSE]
    [] OTHER -> files

SaveOutcomes == {"complete", "index_only", "chunks_cut", "nothing"}

\* the most chunks the store holds while the two endpoints are examined, and
\* the most requests of each endpoint, in flight together or one after the
\* other
MaxStored == 4
MaxUploads == 2
MaxIndexRuns == 2

\* DocumentLoader._generate_doc_id: the md5 of the path as it was passed.
\* load_all_documents passes str() of what Path("./documents").rglob gives,
\* "documents/<name>"; upload_document passes "./documents/<name>". The
\* digest of the first is written <name>, that of the second ./<name>.
DocIdOf(d, route) == IF route = "rglob" THEN d ELSE "./" \o d

\* chunk_id = f"{doc_id}_chunk_{chunk_index}": a, b, c for the chunks of the
\* documents /index loads, ./a, ./b, ./c for those of an uploaded file
ChunkIdOf(id, route) == IF route = "rglob" THEN id ELSE "./" \o id

\* chunk_document over the document load_single_document returns for a full
\* file: d1 is one chunk, d2 two
DocChunks(d, route) ==
  IF d = "d1" THEN <<Chunk(ChunkIdOf("a", route), DocIdOf("d1", route), "north")>>
  ELSE <<Chunk(ChunkIdOf("b", route), DocIdOf("d2", route), "west"),
         Chunk(ChunkIdOf("c", route), DocIdOf("d2", route), "east")>>

\* the orders in which rglob('*') may list the files: the directory's, which
\* no code sorts
Listings(files) ==
  {order \in [1..Cardinality(files) -> files] :
     \A i, j \in 1..Cardinality(files) : i # j => order[i] # order[j]}

\* load_all_documents and chunk_document over the folder listed in `order`:
\* the chunks of its documents; a file of no bytes is a document of no chunk
RECURSIVE FolderChunks(_, _)
FolderChunks(files, order) ==
  IF order = <<>> THEN <<>>
  ELSE (IF files[Head(order)] = "full" THEN DocChunks(Head(order), "rglob") ELSE <<>>)
         \o FolderChunks(files, Tail(order))

\* the server started after the folder had been indexed: /index added the
\* folder's chunks and saved the store, lifespan loaded the files, the
\* pipeline built the BM25 index over the chunks
IndexingInit ==
  /\ \E docs \in (SUBSET DocIds) \ {{}} :
       /\ folder = [d \in docs |-> "full"]
       /\ \E order \in Listings(docs) : chunks = FolderChunks(folder, order)
  /\ index = IndexOf(chunks)
  /\ id_to_idx = IdToIdxOf(chunks)
  /\ disk = save(Store(chunks, index, id_to_idx), NoFiles, "complete")
  /\ socket = NoSocket
  /\ upload_pc = NoUpload
  /\ use_hybrid = TRUE
  /\ tokenized_corpus = TokenizedCorpusOf(chunks)
  /\ reranker = "absent"
  /\ r_pc = "idle"
  /\ call = NoCall
  /\ queries = <<>>
  /\ results = <<>>
  /\ doc_ids = {}
  /\ received = [kind |-> "nothing"]
  /\ applied = NoOp
  /\ index_pc = NoIndexing
  /\ NoAgent /\ StoreIdle /\ BudgetIdle /\ RegistryIdle
  /\ ConversationIdle /\ QueryIdle

\* what the endpoints and the search leave alone; `applied` describes the
\* search of the latest step only
nonIndexingVars == <<use_hybrid, tokenized_corpus, reranker, r_pc, call, queries, results,
                     docVars, agentVars, storeVars, budgetVars, registryVars, convVars,
                     requests, socket>>

\* a request that has been answered
UploadDone == [at |-> "done", doc |-> "none", chunks |-> <<>>]
IndexDone == [at |-> "done", before |-> <<>>, all_chunks |-> <<>>]

\* upload_document(file) up to `await file.read()`: open(file_path, "wb")
\* has created the file, or emptied the one there was. Nothing makes a
\* request wait for another one: it starts whatever the others are
\* suspended in
UploadOpen ==
  /\ Len(upload_pc) < MaxUploads
  /\ \E d \in DocIds :
       /\ folder' = Put(folder, d, "empty")
       /\ upload_pc' = Append(upload_pc, [at |-> "reading", doc |-> d, chunks |-> <<>>])
  /\ applied' = NoOp
  /\ UNCHANGED <<chunks, index, id_to_idx, index_pc, disk, nonIndexingVars>>

\* the bytes are read and written, the file is loaded and chunked; the
\* embeddings are awaited next
UploadWrite ==
  /\ \E i \in 1..Len(upload_pc) :
       /\ upload_pc[i].at = "reading"
       /\ folder' = Put(folder, upload_pc[i].doc, "full")
       /\ upload_pc' = [upload_pc EXCEPT
                          ![i] = [at |-> "embedding", doc |-> @.doc,
                                  chunks |-> DocChunks(@.doc, "upload")]]
  /\ applied' = NoOp
  /\ UNCHANGED <<chunks, index, id_to_idx, index_pc, disk, nonIndexingVars>>

\* the embeddings arrive: vector_store.add(embeddings, chunks)
UploadAdd ==
  /\ \E i \in 1..Len(upload_pc) :
       /\ upload_pc[i].at = "embedding"
       /\ Len(chunks) + Len(upload_pc[i].chunks) <= MaxStored
       /\ LET batch == upload_pc[i].chunks
              out == add(EmbeddingsOf([j \in 1..Len(batch) |-> batch[j].content]), batch)
          IN  /\ chunks' = out.store.chunks
              /\ index' = out.store.index
              /\ id_to_idx' = out.store.id_to_idx
       /\ upload_pc' = [upload_pc EXCEPT ![i] = UploadDone]
  /\ applied' = NoOp
  /\ UNCHANGED <<folder, index_pc, disk, nonIndexingVars>>

\* loading, chunking or embedding raises: `except Exception` answers 500,
\* the file stays in the folder and the store as it is
UploadFailed ==
  /\ \E i \in 1..Len(upload_pc) :
       /\ upload_pc[i].at = "embedding"
       /\ upload_pc' = [upload_pc EXCEPT ![i] = UploadDone]
  /\ applied' = NoOp
  /\ UNCHANGED <<chunks, index, id_to_idx, folder, index_pc, disk, nonIndexingVars>>

\* index_documents up to its first await: vector_store.clear(); it starts
\* whatever the other requests are suspended in
IndexClear ==
  /\ Len(index_pc) < MaxIndexRuns
  /\ chunks' = <<>>
  /\ index' = <<>>
  /\ id_to_idx' = EmptyDict
  /\ index_pc' = Append(index_pc, [at |-> "loading", before |-> chunks,
                                   all_chunks |-> <<>>])
  /\ applied' = NoOp
  /\ UNCHANGED <<folder, upload_pc, disk, nonIndexingVars>>

\* the documents are loaded in the order rglob lists them and chunked;
\* embedding is awaited next
IndexLoaded ==
  /\ \E i \in 1..Len(index_pc) :
       /\ index_pc[i].at = "loading"
       /\ \E order \in Listings(DOMAIN folder) :
            index_pc' = [index_pc EXCEPT
                           ![i] = [at |-> "embedding", before |-> @.before,
                                   all_chunks |-> FolderChunks(folder, order)]]
  /\ applied' = NoOp
  /\ UNCHANGED <<chunks, index, id_to_idx, folder, upload_pc, disk, nonIndexingVars>>

\* the embeddings arrive: vector_store.add(embeddings, all_chunks), then
\* vector_store.save(settings.VECTOR_STORE_PATH)
IndexAdd ==
  /\ \E i \in 1..Len(index_pc) :
       /\ index_pc[i].at = "embedding"
       /\ Len(chunks) + Len(index_pc[i].all_chunks) <= MaxStored
       /\ LET batch == index_pc[i].all_chunks
              out == add(EmbeddingsOf([j \in 1..Len(batch) |-> batch[j].content]), batch)
          IN  /\ chunks' = out.store.chunks
              /\ index' = out.store.index
              /\ id_to_idx' = out.store.id_to_idx
              /\ \E outcome \in SaveOutcomes : disk' = save(out.store, disk, outcome)
       /\ index_pc' = [index_pc EXCEPT ![i] = IndexDone]
  /\ applied' = NoOp
  /\ UNCHANGED <<folder, upload_pc, nonIndexingVars>>

\* loading or embedding raises: the request ends, the store stays as it is
IndexFailed ==
  /\ \E i \in 1..Len(index_pc) :
       /\ index_pc[i].at \in {"loading", "embedding"}
       /\ index_pc' = [index_pc EXCEPT ![i] = IndexDone]
  /\ applied' = NoOp
  /\ UNCHANGED <<chunks, index, id_to_idx, folder, upload_pc, disk, nonIndexingVars>>

\* a retrieve call reaches hybrid_search(query, embedding, top_k * 2)
IndexingSearch ==
  /\ \E query \in Queries, top_k \in TopKs :
       applied' = [op |-> "hybrid_search", query |-> query, top_k |-> top_k,
                   during |-> index_pc, seen |-> chunks, bm25_over |-> tokenized_corpus,
                   returned |-> hybrid_search(query, Embed(query), top_k * 2)]
  /\ UNCHANGED <<chunks, index, id_to_idx, index_pc, folder, upload_pc, disk,
                 nonIndexingVars>>

IndexingNext ==
  \/ UploadOpen
  \/ UploadWrite
  \/ UploadAdd
  \/ UploadFailed
  \/ IndexClear
  \/ IndexLoaded
  \/ IndexAdd
  \/ IndexFailed
  \/ IndexingSearch

\* C27: while a re-indexing request is in progress, no concurrent retrieve
\* observes an intermediate index state: its search sees the chunks the
\* store held when the request began.
C27_NoSearchSeesIntermediateIndex ==
  applied.op = "hybrid_search"
    => \A i \in 1..Len(applied.during) :
         applied.during[i].at # "done" => applied.seen = applied.during[i].before

\* C28: at every hybrid search the BM25 index has been built over exactly the
\* store's current chunk list, so the keyword score at position i belongs to
\* the chunk at position i.
C28_Bm25BuiltOverCurrentChunks ==
  applied.op = "hybrid_search"
    => applied.bm25_over = TokenizedCorpusOf(applied.seen)

\* the keyword scores of the chunks cs for the query: the batch
KeywordScores(query, cs) ==
  [i \in 1..Len(cs) |-> Bm25Score(Tokens(query), Tokens(cs[i].content))]

\* the chunk's keyword score over the greatest of the batch, in hundredths,
\* where the batch is the chunks the keyword index reaches (the first n of
\* cs): 0 when the greatest is zero, 0 for a chunk the index does not reach
KeywordNorm(query, c, cs, n) ==
  LET reached == Take(cs, Min(n, Len(cs)))
      batch == KeywordScores(query, reached)
      greatest == IF Len(batch) = 0 THEN 0 ELSE MaxOf(batch)
  IN  IF greatest = 0 \/ ~\E i \in 1..Len(reached) : reached[i].chunk_id = c.chunk_id
      THEN 0
      ELSE (ScoreUnit * Bm25Score(Tokens(query), Tokens(c.content))) \div greatest

\* the chunk's score among the vector results, 0 when it is not among them
VectorScoreOf(vector_results, c) ==
  IF \E j \in 1..Len(vector_results) : vector_results[j].chunk.chunk_id = c.chunk_id
  THEN vector_results[CHOOSE j \in 1..Len(vector_results) :
                        /\ vector_results[j].chunk.chunk_id = c.chunk_id
                        /\ \A h \in (j + 1)..Len(vector_results) :
                             vector_results[h].chunk.chunk_id # c.chunk_id].score
  ELSE 0

\* C36: hybrid_search returns at most top_k entries in order of non-increasing
\* combined score, and the combined score of each chunk is
\* alpha * vector_score + (1 - alpha) * keyword_norm, where keyword_norm is
\* the chunk's keyword score over the greatest keyword score of the batch
\* (0 for every chunk when the greatest is zero), a chunk that is not among
\* the vector results has the vector score 0, and a chunk the keyword index
\* does not reach has the keyword score 0.
C36_HybridSearchFusesChunkScores ==
  applied.op = "hybrid_search"
    => LET k == applied.top_k * 2
           vector_results == search(Embed(applied.query), k * 2)
           returned == applied.returned
       IN  /\ Len(returned) <= k
           /\ \A i \in 1..(Len(returned) - 1) : returned[i].score >= returned[i + 1].score
           /\ \A i \in 1..Len(returned) :
                returned[i].score =
                  CombinedScoreAt(
                    [vector_score |-> VectorScoreOf(vector_results, returned[i].chunk),
                     bm25_score |-> KeywordNorm(applied.query, returned[i].chunk,
                                                applied.seen, Len(applied.bm25_over))],
                    AlphaPct)

(***************************************************************************)
(* Two sessions on one ActionBudgetGuard and one ConversationManager       *)
(***************************************************************************)

\* the two sessions
SessionPair == {"s1", "s2"}

\* the most add_message calls and the most increments per session examined
\* with two sessions, and the latest time
PairMessages == 6
PairIncrements == 2
PairMaxTime == 120

\* one guard and one manager just constructed, the event loop running or not
PairInit ==
  /\ guard = [max_actions_per_session |-> 2, max_actions_per_minute |-> 3,
              reset_after_seconds |-> 100]
  /\ now = 0
  /\ session_counts = EmptyDict
  /\ session_timestamps = EmptyDict
  /\ minute_windows = EmptyDict
  /\ budget_op = NoOp
  /\ increments = EmptyDict
  /\ gated = TRUE
  /\ cm = ConversationManager(MaxHistoryLength, MaxHistoryLength, SummarizationThreshold)
  /\ loop \in {"running", "stopped", "none"}
  /\ conversations = EmptyDict
  /\ summaries = EmptyDict
  /\ tasks = <<>>
  /\ clock = 1
  /\ added = EmptyDict
  /\ conv_op = NoOp
  /\ applied = NoOp
  /\ index_pc = NoIndexing
  /\ folder = EmptyDict
  /\ LateIdle
  /\ NoStore /\ NoPipeline /\ NoAgent /\ StoreIdle /\ RegistryIdle /\ QueryIdle

\* what the operations on the guard leave alone, and those on the manager
nonPairBudgetVars == <<guard, budget_op, increments, gated, convVars, agentVars,
                       retrievalVars, docVars, storeVars, registryVars, requests,
                       index_pc, folder, lateVars>>
nonPairConvVars == <<cm, conv_op, budgetVars, agentVars, retrievalVars, docVars,
                     storeVars, registryVars, requests, index_pc, folder, lateVars>>

\* the guard's dicts take the values of g
GuardBecomes(g) ==
  /\ session_counts' = g.session_counts
  /\ session_timestamps' = g.session_timestamps
  /\ minute_windows' = g.minute_windows

\* the guard and the manager share no state: each is examined while the
\* other is as constructed
GuardUntouched ==
  /\ now = 0
  /\ session_counts = EmptyDict
  /\ session_timestamps = EmptyDict
  /\ minute_windows = EmptyDict

ManagerUntouched == clock = 1 /\ conversations = EmptyDict /\ tasks = <<>>

\* a minute passes
PairTick ==
  /\ ManagerUntouched
  /\ now + WindowSeconds <= PairMaxTime
  /\ now' = now + WindowSeconds
  /\ applied' = [op |-> "tick", session |-> "none"]
  /\ UNCHANGED <<session_counts, session_timestamps, minute_windows, nonPairBudgetVars>>

\* check_budget(sid)
PairCheckBudget(sid) ==
  /\ ManagerUntouched
  /\ GuardBecomes(check_budget(Guard, sid, now).state)
  /\ applied' = [op |-> "check_budget", session |-> sid]
  /\ UNCHANGED <<now, nonPairBudgetVars>>

\* increment(sid)
PairIncrement(sid) ==
  /\ ManagerUntouched
  /\ Get(session_counts, sid, 0) < PairIncrements
  /\ GuardBecomes(increment(Guard, sid, now))
  /\ applied' = [op |-> "increment", session |-> sid]
  /\ UNCHANGED <<now, nonPairBudgetVars>>

\* reset(sid)
PairReset(sid) ==
  /\ ManagerUntouched
  /\ GuardBecomes(reset(Guard, sid))
  /\ applied' = [op |-> "reset", session |-> sid]
  /\ UNCHANGED <<now, nonPairBudgetVars>>

\* add_message(sid, "user", "hi")
PairAddMessage(sid) ==
  /\ GuardUntouched
  /\ clock <= PairMessages
  /\ Becomes(add_message(cm, loop, Current, sid, "user", <<"hi">>))
  /\ loop' = loop_after(cm, loop, Current, sid)
  /\ applied' = [op |-> "add_message", session |-> sid]
  /\ UNCHANGED nonPairConvVars

\* the event loop runs the oldest summarization task
PairSummarize ==
  /\ GuardUntouched
  /\ tasks # <<>>
  /\ Becomes(_summarize_conversation(cm, [Current EXCEPT !.tasks = Tail(@)], Head(tasks)))
  /\ applied' = [op |-> "summarize", session |-> Head(tasks)]
  /\ UNCHANGED <<loop, nonPairConvVars>>

\* clear_conversation(sid)
PairClear(sid) ==
  /\ GuardUntouched
  /\ Becomes(clear_conversation(Current, sid))
  /\ applied' = [op |-> "clear", session |-> sid]
  /\ UNCHANGED <<loop, nonPairConvVars>>

PairNext ==
  \/ PairTick
  \/ \E sid \in SessionPair : PairCheckBudget(sid)
  \/ \E sid \in SessionPair : PairIncrement(sid)
  \/ \E sid \in SessionPair : PairReset(sid)
  \/ \E sid \in SessionPair : PairAddMessage(sid)
  \/ PairSummarize
  \/ \E sid \in SessionPair : PairClear(sid)

\* whether key k is in dict d, and its value
Slot(d, k) == IF k \in DOMAIN d THEN <<TRUE, d[k]>> ELSE <<FALSE>>

\* C38: an operation keyed by one session leaves every other session's
\* lifetime count, last activity, window timestamps, messages and summary as
\* they were.
C38_OtherSessionsUnchanged ==
  [][\A b \in SessionPair :
       applied'.session # b
         => /\ Slot(session_counts', b) = Slot(session_counts, b)
            /\ Slot(session_timestamps', b) = Slot(session_timestamps, b)
            /\ Slot(minute_windows', b) = Slot(minute_windows, b)
            /\ Slot(conversations', b) = Slot(conversations, b)
            /\ Slot(summaries', b) = Slot(summaries, b)]_vars

\* session s1 was just cleared while s2 holds messages and a summary
C38_Witness ==
  /\ applied.op = "clear"
  /\ applied.session = "s1"
  /\ "s1" \notin DOMAIN conversations
  /\ "s2" \in DOMAIN summaries
  /\ "s2" \in DOMAIN conversations
  /\ conversations["s2"] # <<>>

(***************************************************************************)
(* InMemoryVectorStore.save and load, over restarts of the server          *)
(***************************************************************************)

\* the most chunks the store holds while its files are examined
PersistChunks == 2

\* InMemoryVectorStore.load(path) on the store st: self.index is assigned
\* from read_index first, then the chunks file is opened and unpickled
load(st) ==
  IF ~disk.has_index THEN [raised |-> TRUE, store |-> st]
  ELSE IF ~disk.has_chunks
       THEN [raised |-> TRUE, store |-> Store(st.chunks, disk.index, st.id_to_idx)]
       ELSE [raised |-> FALSE, store |-> Store(disk.chunks, disk.index, disk.id_to_idx)]

\* a store just constructed, no file saved
PersistInit ==
  /\ chunks = <<>>
  /\ index = <<>>
  /\ id_to_idx = EmptyDict
  /\ results = <<>>
  /\ StoreIdle
  /\ NoPipeline /\ NoAgent /\ BudgetIdle /\ RegistryIdle /\ RestIdle

\* what the store's operations and its files leave alone
nonPersistVars == <<use_hybrid, tokenized_corpus, reranker, r_pc, call, queries, results,
                    docVars, agentVars, storeVars, budgetVars, registryVars, convVars,
                    requests, applied, index_pc, folder, socket, upload_pc>>

\* add(embeddings, chunks), the embeddings as many as the chunks or not
PersistAdd ==
  /\ \E batch \in SeqsUpTo(ChunkTypes, PersistChunks) \ {<<>>}, matching \in BOOLEAN :
       /\ Len(chunks) + Len(batch) <= PersistChunks
       /\ Len(index) + Len(batch) <= 2 * PersistChunks
       /\ LET embeddings == IF matching
                            THEN EmbeddingsOf([i \in 1..Len(batch) |-> batch[i].content])
                            ELSE <<>>
              out == add(embeddings, batch)
          IN  /\ chunks' = out.store.chunks
              /\ index' = out.store.index
              /\ id_to_idx' = out.store.id_to_idx
  /\ UNCHANGED <<disk, nonPersistVars>>

\* clear()
PersistClear ==
  /\ chunks' = <<>>
  /\ index' = <<>>
  /\ id_to_idx' = EmptyDict
  /\ UNCHANGED <<disk, nonPersistVars>>

\* save(path), as index_documents calls it after add
PersistSave ==
  /\ \E outcome \in SaveOutcomes :
       disk' = save(Store(chunks, index, id_to_idx), disk, outcome)
  /\ UNCHANGED <<chunks, index, id_to_idx, nonPersistVars>>

\* lifespan at a start of the server: a new store, then load inside
\* try/except Exception, the store used as load left it
Lifespan ==
  /\ LET out == load(Store(<<>>, <<>>, EmptyDict))
     IN  /\ chunks' = out.store.chunks
         /\ index' = out.store.index
         /\ id_to_idx' = out.store.id_to_idx
  /\ UNCHANGED <<disk, nonPersistVars>>

PersistNext == PersistAdd \/ PersistClear \/ PersistSave \/ Lifespan

\* C40: after any sequence of add, clear and load (an add rejected for its
\* lengths and a load that fails part-way included) the index holds as many
\* vectors as the store holds chunks, every entry of id_to_idx points at a
\* chunk with that chunk_id, and the vector at each position is the one of
\* the chunk at that position.
C40_IndexChunksAndMapAligned ==
  /\ Len(index) = Len(chunks)
  /\ \A id \in DOMAIN id_to_idx :
       /\ id_to_idx[id] \in 1..Len(chunks)
       /\ chunks[id_to_idx[id]].chunk_id = id
  /\ \A i \in 1..Len(index) :
       i <= Len(chunks) => index[i] = normalize_L2(Embed(chunks[i].content))

(***************************************************************************)
(* websocket_endpoint: a streaming run whose client may go away            *)
(***************************************************************************)

\* the client has not gone
NotGone == [llm_calls |-> -1, handler_calls |-> -1, events |-> -1, sent |-> -1]

\* the most messages without a query the client sends
MaxEmptyQueries == 1

\* a websocket not yet accepted, and the agent as one streaming request
\* finds it
SocketInit ==
  /\ AgentInit
  /\ mode = "stream"

\* connection_manager.connect(websocket, client_id): the websocket is
\* accepted and put in active_connections; the endpoint then awaits
\* receive_json
SocketConnect ==
  /\ socket = NoSocket
  /\ socket' = [client |-> "connected", registered |-> TRUE, ep |-> "receiving",
                rejected |-> 0, pulled |-> 0, sent |-> 0, at |-> NotGone]
  /\ UNCHANGED <<agentVars, retrievalVars, docVars, storeVars, budgetVars, registryVars,
                 convVars, requests, applied, index_pc, folder, disk, upload_pc>>

\* receive_json returns a message of the client. Without a query the
\* endpoint sends 'No query provided' with websocket.send_json and awaits
\* the next message; with a query it starts to iterate
\* execute_with_streaming (one run is followed here)
SocketReceive ==
  /\ socket # NoSocket
  /\ socket.ep = "receiving" /\ socket.client = "connected"
  /\ pc = "start"
  /\ \/ /\ socket.rejected < MaxEmptyQueries
        /\ socket' = [socket EXCEPT !.rejected = @ + 1]
     \/ socket' = [socket EXCEPT !.ep = "running"]
  /\ UNCHANGED <<agentVars, retrievalVars, docVars, storeVars, budgetVars, registryVars,
                 convVars, requests, applied, index_pc, folder, disk, upload_pc>>

\* `async for event in contextual_agent.execute_with_streaming(...)`: once
\* the event yielded last has been through send_message, the generator is
\* resumed and runs to its next yield
SocketPull ==
  /\ socket # NoSocket
  /\ socket.ep = "running"
  /\ socket.pulled = Len(events)
  /\ GeneratorNext

\* ConnectionManager.send_message(client_id, message): nothing is done
\* without a websocket in active_connections; send_json to a client that has
\* gone, or of a message json.dumps rejects, raises inside the try, and the
\* except clause removes the websocket and returns
send_message(sk, message) ==
  IF ~sk.registered THEN sk
  ELSE IF sk.client = "gone" \/ ~json_dumps_event_ok(message)
  THEN [sk EXCEPT !.registered = FALSE]
  ELSE [sk EXCEPT !.sent = @ + 1]

\* await connection_manager.send_message(client_id, event) for the event
\* just yielded; after the done event the generator is exhausted when it is
\* resumed, and the endpoint's loop awaits receive_json again
SocketSend ==
  /\ socket # NoSocket
  /\ socket.pulled < Len(events)
  /\ socket' = [send_message(socket, events[socket.pulled + 1]) EXCEPT
                  !.pulled = @ + 1,
                  !.ep = IF pc = "finished" /\ socket.pulled + 1 = Len(events)
                         THEN "receiving" ELSE @]
  /\ UNCHANGED <<agentVars, retrievalVars, docVars, storeVars, budgetVars, registryVars,
                 convVars, requests, applied, index_pc, folder, disk, upload_pc>>

\* connection_manager.disconnect(client_id)
disconnect(sk) == [sk EXCEPT !.registered = FALSE]

\* websocket_endpoint's `except Exception`, for an exception that leaves the
\* generator: send_message(client_id, error event), then
\* disconnect(client_id), and the endpoint returns
SocketError ==
  /\ socket # NoSocket
  /\ pc = "raised"
  /\ socket' = [disconnect(send_message(socket, Ev("error"))) EXCEPT !.ep = "ended"]
  /\ pc' = "closed"
  /\ UNCHANGED <<mode, provider, needs_tools, n_chunks, loopVars, result, events,
                 client_error, provider_failed, retrievalVars, docVars, storeVars,
                 budgetVars, registryVars, convVars, requests, applied, index_pc, folder,
                 disk, upload_pc>>

\* the client disconnects, at any time before the endpoint has returned:
\* while the endpoint waits for the query, while the run is in progress,
\* between a yield and its send, or after the run
SocketDisconnect ==
  /\ socket # NoSocket
  /\ socket.client = "connected"
  /\ socket.ep # "ended"
  /\ socket' = [socket EXCEPT !.client = "gone",
                              !.at = [llm_calls |-> llm_calls,
                                      handler_calls |-> handler_calls,
                                      events |-> Len(events), sent |-> socket.sent]]
  /\ UNCHANGED <<agentVars, retrievalVars, docVars, storeVars, budgetVars, registryVars,
                 convVars, requests, applied, index_pc, folder, disk, upload_pc>>

\* receive_json, awaited for a client that has gone, raises
\* WebSocketDisconnect: `except WebSocketDisconnect` calls
\* disconnect(client_id) and the endpoint returns
SocketClosed ==
  /\ socket # NoSocket
  /\ socket.ep = "receiving" /\ socket.client = "gone"
  /\ socket' = [disconnect(socket) EXCEPT !.ep = "ended"]
  /\ UNCHANGED <<agentVars, retrievalVars, docVars, storeVars, budgetVars, registryVars,
                 convVars, requests, applied, index_pc, folder, disk, upload_pc>>

SocketNext ==
  \/ SocketConnect
  \/ SocketReceive
  \/ SocketPull
  \/ SocketSend
  \/ SocketError
  \/ SocketDisconnect
  \/ SocketClosed

\* C31: once the client has disconnected during a streaming run, the run is
\* cancelled where it stands: no generation call and no tool handler is
\* started after the disconnect, and no event is emitted or sent after it.
C31_DisconnectCancelsTheRun ==
  (socket # NoSocket /\ socket.client = "gone")
    => /\ llm_calls = socket.at.llm_calls
       /\ handler_calls = socket.at.handler_calls
       /\ Len(events) = socket.at.events
       /\ socket.sent = socket.at.sent

(***************************************************************************)
(* Specifications                                                          *)
(***************************************************************************)

\* the agent, in either variant, with every provider and tool behaviour
SpecAgent == AgentInit /\ [][AgentNext]_vars

\* retrieve, over every store, pipeline and call within the bounds
SpecRetrieve == RetrievalInit /\ [][RetrievalNext]_vars

\* the pipeline from its construction on, with retrieve_by_document and its
\* callers, and the store changed by other requests while a call awaits
SpecPipeline == PipelineInit /\ [][PipelineNext]_vars

\* the vector store under every sequence of its operations
SpecStore == StoreInit /\ [][StoreNext]_vars

\* one budget guard under every sequence of its operations and of time steps
SpecBudget == BudgetInit /\ [][BudgetNext]_vars

\* one tool registry under every sequence of register and execute_tool
SpecRegistry == RegistryInit /\ [][RegistryNext]_vars

\* one conversation manager under every sequence of its operations, with the
\* event loop running its summarization tasks at any later time
SpecConversation == ConversationInit /\ [][ConversationNext]_vars

\* two /query requests of one session, interleaved at their awaits
SpecQuery == QueryInit /\ [][QueryNext]_vars

\* hybrid_search over every store within the bounds, the BM25 index fresh or
\* stale
SpecHybrid == HybridInit /\ [][HybridNext]_vars

\* rerank applied to every candidate list within the bounds
SpecRerank == RerankInit /\ [][RerankNext]_vars

\* expand_with_llm under every provider outcome within the bounds
SpecExpand == ExpandInit /\ [][ExpandNext]_vars

\* uploads, re-indexing requests and searches interleaved at their awaits
SpecIndexing == IndexingInit /\ [][IndexingNext]_vars

\* two sessions sharing the guard and the manager, their operations
\* interleaved
SpecSessions == PairInit /\ [][PairNext]_vars

\* the vector store and its files under add, clear, save and restarts
SpecPersist == PersistInit /\ [][PersistNext]_vars
\* a streaming run over a websocket whose client may disconnect
SpecSocket == SocketInit /\ [][SocketNext]_vars
====
